---- MODULE Spec2Model ----
(***************************************************************************)
(* A model of the value library opst/knitfab-api-types: the unordered      *)
(* equality engine of internal/utils/cmp, the Tag / UserTag / Change types *)
(* of package tags and the Annotation / AnnotationChange types of package  *)
(* plans.                                                                  *)
(*                                                                         *)
(* Go strings are modelled as sequences of one-character strings, so that  *)
(* strings.Cut, strings.TrimSpace and strings.HasPrefix are computed       *)
(* character by character.  Every operation of the library is a pure       *)
(* function of its receiver and arguments: each specification below draws  *)
(* the arguments in its initial state and has one action per operation,    *)
(* which applies the operation and records what it returned.               *)
(***************************************************************************)
EXTENDS Integers, Sequences, FiniteSets, TLC

VARIABLES
    a,      \* first slice handed to cmp.SliceEqualUnordered
    b,      \* second slice handed to cmp.SliceEqualUnordered
    eq,     \* the element type's Equal method, as a set of pairs
    t,      \* a tags.Tag: receiver / decoding target
    o,      \* a second tags.Tag: argument of Tag.Equal
    ut,     \* a tags.UserTag: decoding target
    data,   \* the JSON value (or, for Parse, the string) handed to a decoder
    doc,    \* the JSON object handed to a change-set decoder
    c,      \* a tags.Change: decoding target
    ac,     \* a plans.AnnotationChange: decoding target
    pre,    \* the targets as they were before the call
    pc,     \* "ready" before the call, "done" after it
    ret     \* what the call returned

vars == <<a, b, eq, t, o, ut, data, doc, c, ac, pre, pc, ret>>

----------------------------------------------------------------------------
(* Bounds of the model.                                                    *)

\* longest slice handed to the unordered equality engine
MaxLen == 3

\* longest input string, counted in tokens of the alphabet below
MaxTokens == 3

\* longest key of a directly constructed Tag, counted in tokens
MaxKeyTokens == 2

\* most elements a change-set document holds over its three lists
MaxElems == 2

----------------------------------------------------------------------------
(* Strings.                                                                *)

\* the characters unicode.IsSpace accepts, as far as the inputs use them
WhiteSpace == {" ", "\t", "\n", "\r"}

\* strings.Cut(s, sep) for a one-character sep: the index of the first sep, 0 if none
IndexOf(s, sep) ==
    IF \E i \in 1..Len(s) : s[i] = sep
    THEN CHOOSE i \in 1..Len(s) : s[i] = sep /\ \A j \in 1..(i - 1) : s[j] # sep
    ELSE 0

Cut(s, sep) ==
    LET i == IndexOf(s, sep)
    IN  IF i = 0
        THEN [before |-> s, after |-> <<>>, found |-> FALSE]
        ELSE [before |-> SubSeq(s, 1, i - 1),
              after  |-> SubSeq(s, i + 1, Len(s)),
              found  |-> TRUE]

\* strings.TrimSpace
TrimSpace(s) ==
    LET solid == {i \in 1..Len(s) : s[i] \notin WhiteSpace}
    IN  IF solid = {}
        THEN <<>>
        ELSE LET lo == CHOOSE i \in solid : \A j \in solid : i <= j
                 hi == CHOOSE i \in solid : \A j \in solid : j <= i
             IN  SubSeq(s, lo, hi)

\* strings.HasPrefix
HasPrefix(s, prefix) ==
    /\ Len(s) >= Len(prefix)
    /\ SubSeq(s, 1, Len(prefix)) = prefix

\* all concatenations of at most n strings of the set tokens
RECURSIVE StrsOf(_, _)
StrsOf(tokens, n) ==
    IF n = 0
    THEN {<<>>}
    ELSE LET shorter == StrsOf(tokens, n - 1)
         IN  shorter \cup {s \o tk : s \in shorter, tk \in tokens}

\* all sequences over S of length at most n
SeqsUpTo(S, n) == UNION {[1..k -> S] : k \in 0..n}

----------------------------------------------------------------------------
(* internal/utils/cmp                                                      *)

\* b = append(b[:i], b[i+1:]...)
RemoveAt(s, i) == SubSeq(s, 1, i - 1) \o SubSeq(s, i + 1, Len(s))

\* the inner loop: the index of the first y of the working copy with x.Equal(y), 0 if none
FirstMatch(x, w, equal) ==
    IF \E i \in 1..Len(w) : <<x, w[i]>> \in equal
    THEN CHOOSE i \in 1..Len(w) :
            /\ <<x, w[i]>> \in equal
            /\ \A j \in 1..(i - 1) : <<x, w[j]>> \notin equal
    ELSE 0

\* the outer loop over a, with w the working copy of b
RECURSIVE MatchAll(_, _, _)
MatchAll(xs, w, equal) ==
    IF xs = <<>>
    THEN Len(w) = 0
    ELSE LET i == FirstMatch(Head(xs), w, equal)
         IN  IF i = 0
             THEN FALSE
             ELSE MatchAll(Tail(xs), RemoveAt(w, i), equal)

\* a plausible slip: the matched element is found but left in the working copy
RECURSIVE MatchAllKeeping(_, _, _)
MatchAllKeeping(xs, w, equal) ==
    IF xs = <<>>
    THEN TRUE
    ELSE LET i == FirstMatch(Head(xs), w, equal)
         IN  IF i = 0
             THEN FALSE
             ELSE MatchAllKeeping(Tail(xs), w, equal)

SliceEqualUnorderedKeeping(xs, ys, equal) ==
    IF Len(xs) # Len(ys) THEN FALSE ELSE MatchAllKeeping(xs, ys, equal)

\* a plausible slip: the elements are compared position by position
SliceEqualUnorderedInOrder(xs, ys, equal) ==
    IF Len(xs) # Len(ys) THEN FALSE
    ELSE \A i \in 1..Len(xs) : <<xs[i], ys[i]>> \in equal

\* cmp.SliceEqualUnordered, with the element type's Equal given as a set of pairs
SliceEqualUnordered(xs, ys, equal) ==
    IF Len(xs) # Len(ys) THEN FALSE ELSE MatchAll(xs, ys, equal)

\* delete(b, k)
Delete(mp, k) == [x \in DOMAIN mp \ {k} |-> mp[x]]

\* a plausible slip: pred is called before the lookup's ok is looked at (vb is
\* the zero value for a key that b lacks)
RECURSIVE MapLoopPredFirst(_, _, _, _, _)
MapLoopPredFirst(order, ma, w, pred, applied) ==
    IF order = <<>>
    THEN [result |-> DOMAIN w = {}, applied |-> applied]
    ELSE IF Head(order) \notin DOMAIN w \/ <<ma[Head(order)], w[Head(order)]>> \notin pred
    THEN [result |-> FALSE, applied |-> applied \cup {Head(order)}]
    ELSE MapLoopPredFirst(Tail(order), ma, Delete(w, Head(order)), pred,
                          applied \cup {Head(order)})

MapEqualWithPredFirst(ma, mb, pred, order) ==
    IF Cardinality(DOMAIN ma) # Cardinality(DOMAIN mb)
    THEN [result |-> FALSE, applied |-> {}]
    ELSE MapLoopPredFirst(order, ma, mb, pred, {})

\* the loop of MapEqualWith over the keys of a in the order the range statement
\* yields them, with w the clone of b; applied collects the keys pred was
\* called for
RECURSIVE MapLoop(_, _, _, _, _)
MapLoop(order, ma, w, pred, applied) ==
    IF order = <<>>
    THEN [result |-> DOMAIN w = {}, applied |-> applied]
    ELSE IF Head(order) \notin DOMAIN w
    THEN [result |-> FALSE, applied |-> applied]
    ELSE IF <<ma[Head(order)], w[Head(order)]>> \notin pred
    THEN [result |-> FALSE, applied |-> applied \cup {Head(order)}]
    ELSE MapLoop(Tail(order), ma, Delete(w, Head(order)), pred, applied \cup {Head(order)})

\* cmp.MapEqualWith (and cmp.MapEqual, which passes V.Equal), with pred given as
\* a set of pairs; order is the order in which range yields the keys of a
MapEqualWith(ma, mb, pred, order) ==
    IF Cardinality(DOMAIN ma) # Cardinality(DOMAIN mb)
    THEN [result |-> FALSE, applied |-> {}]
    ELSE MapLoop(order, ma, mb, pred, {})

----------------------------------------------------------------------------
(* The state shared by the specifications.                                 *)

NoString == <<>>
ZeroTag == [Key |-> NoString, Value |-> NoString]
ZeroChange == [AddTags |-> <<>>, RemoveTags |-> <<>>, RemoveKey |-> <<>>]
ZeroAnnotationChange == [Add |-> <<>>, Remove |-> <<>>, RemoveKey |-> <<>>]
NoData == [kind |-> "none", str |-> NoString,
           key |-> [st |-> "missing", str |-> NoString],
           value |-> [st |-> "missing", str |-> NoString]]
NoDoc == [order |-> <<>>, add |-> <<>>, remove |-> <<>>, remove_key |-> <<>>]
NoRet == [op |-> "none", err |-> "", result |-> FALSE]

Targets == [t |-> t, ut |-> ut, c |-> c, ac |-> ac, a |-> a]

\* the variables a specification does not use
CmpIdle == a = <<>> /\ b = <<>> /\ eq = {}
TagIdle == t = ZeroTag /\ o = ZeroTag /\ ut = ZeroTag /\ data = NoData
ChangeIdle == doc = NoDoc /\ c = ZeroChange /\ ac = ZeroAnnotationChange

Return(r) ==
    /\ pc' = "done"
    /\ ret' = r

----------------------------------------------------------------------------
(* misc/rfctime: the RFC3339 datetime profile of spec section 4.2.  A      *)
(* datetime is YYYY-MM-DDTHH:MM:SS, an optional fraction of a second, and  *)
(* a zone that is Z or a signed HH:MM offset.  The parsed value is the     *)
(* instant: whole seconds since 1970-01-01T00:00:00Z and the fraction with *)
(* its trailing zeros dropped.                                             *)

Digits == {"0", "1", "2", "3", "4", "5", "6", "7", "8", "9"}

DigitValue ==
    ("0" :> 0) @@ ("1" :> 1) @@ ("2" :> 2) @@ ("3" :> 3) @@ ("4" :> 4) @@
    ("5" :> 5) @@ ("6" :> 6) @@ ("7" :> 7) @@ ("8" :> 8) @@ ("9" :> 9)

AllDigits(s, i, j) == \A k \in i..j : s[k] \in Digits

Num2(s, i) == 10 * DigitValue[s[i]] + DigitValue[s[i + 1]]
Num4(s, i) == 100 * Num2(s, i) + Num2(s, i + 2)

IsLeapYear(y) == (y % 4 = 0 /\ y % 100 # 0) \/ y % 400 = 0

DaysIn(y, m) ==
    IF m = 2 THEN (IF IsLeapYear(y) THEN 29 ELSE 28)
    ELSE IF m \in {4, 6, 9, 11} THEN 30 ELSE 31

\* days from 1970-01-01 to the civil date y-m-d
DaysFromCivil(y, m, d) ==
    LET yy  == IF m <= 2 THEN y - 1 ELSE y
        era == yy \div 400
        yoe == yy - era * 400
        mp  == IF m > 2 THEN m - 3 ELSE m + 9
        doy == (153 * mp + 2) \div 5 + d - 1
        doe == yoe * 365 + yoe \div 4 - yoe \div 100 + doy
    IN  era * 146097 + doe - 719468

\* the fraction digits with trailing zeros dropped
RECURSIVE DropTrailingZeros(_)
DropTrailingZeros(ds) ==
    IF ds # <<>> /\ ds[Len(ds)] = "0"
    THEN DropTrailingZeros(SubSeq(ds, 1, Len(ds) - 1))
    ELSE ds

NoInstant == [ok |-> FALSE, sec |-> 0, frac |-> <<>>]

\* rfctime.ParseRFC3339DateTime: ok is FALSE where the Go function returns an error
ParseRFC3339DateTime(s) ==
    LET n == Len(s)
        shapeOk ==
            /\ n >= 20
            /\ AllDigits(s, 1, 4)   /\ s[5] = "-"
            /\ AllDigits(s, 6, 7)   /\ s[8] = "-"
            /\ AllDigits(s, 9, 10)  /\ s[11] = "T"
            /\ AllDigits(s, 12, 13) /\ s[14] = ":"
            /\ AllDigits(s, 15, 16) /\ s[17] = ":"
            /\ AllDigits(s, 18, 19)
    IN  IF ~shapeOk THEN NoInstant
        ELSE
        LET fracEnd ==
                IF s[20] = "."
                THEN CHOOSE e \in 20..n :
                        /\ AllDigits(s, 21, e)
                        /\ (e = n \/ s[e + 1] \notin Digits)
                ELSE 19
            z == fracEnd + 1
            fracOk == s[20] = "." => fracEnd >= 21
            zoneOk ==
                /\ z <= n
                /\ \/ s[z] = "Z" /\ z = n
                   \/ /\ s[z] \in {"+", "-"}
                      /\ n = z + 5
                      /\ AllDigits(s, z + 1, z + 2)
                      /\ s[z + 3] = ":"
                      /\ AllDigits(s, z + 4, z + 5)
        IN  IF ~(fracOk /\ zoneOk) THEN NoInstant
            ELSE
            LET year  == Num4(s, 1)
                month == Num2(s, 6)
                day   == Num2(s, 9)
                hour  == Num2(s, 12)
                min   == Num2(s, 15)
                sec   == Num2(s, 18)
                zh    == IF s[z] = "Z" THEN 0 ELSE Num2(s, z + 1)
                zm    == IF s[z] = "Z" THEN 0 ELSE Num2(s, z + 4)
                sign  == IF s[z] = "-" THEN -1 ELSE 1
                rangeOk ==
                    /\ month \in 1..12
                    /\ day \in 1..DaysIn(year, month)
                    /\ hour <= 23 /\ min <= 59 /\ sec <= 59
                    /\ zh <= 23 /\ zm <= 59
            IN  IF ~rangeOk THEN NoInstant
                ELSE [ok   |-> TRUE,
                      sec  |-> DaysFromCivil(year, month, day) * 86400
                               + hour * 3600 + min * 60 + sec
                               - sign * (zh * 3600 + zm * 60),
                      frac |-> DropTrailingZeros(SubSeq(s, 21, fracEnd))]

\* RFC3339.Equiv: the same instant
Equiv(x, y) == x.sec = y.sec /\ x.frac = y.frac

----------------------------------------------------------------------------
(* package tags: constants                                                 *)

SystemTagPrefix == <<"k", "n", "i", "t", "#">>
KeyKnitId == SystemTagPrefix \o <<"i", "d">>
KeyKnitTimestamp == SystemTagPrefix \o <<"t", "i", "m", "e", "s", "t", "a", "m", "p">>
KeyKnitTransient == SystemTagPrefix \o <<"t", "r", "a", "n", "s", "i", "e", "n", "t">>
ValueKnitTransientFailed == <<"f", "a", "i", "l", "e", "d">>
ValueKnitTransientProcessing == <<"p", "r", "o", "c", "e", "s", "s", "i", "n", "g">>
ValueKnitTransientPurged == <<"p", "u", "r", "g", "e", "d">>

\* the errors of package tags, by their message
ErrNoKey == "tag parse error: no key"
ErrNotTimestamp == "tag parse error: is not timestamp"
ErrTransientValue == "tag parse error: should be one of processing, failed, or purged"
ErrReserved == "tag key knit#... is reserved for system tags"
ErrNotRemovable == "tag key knit#... is reserved for system tags. not removable."
ErrFailedToParseTag == "failed to parse Tag"
ErrTagIsNil == "tag is nil"
ErrKeyMissing == "field key is missing"
ErrKeyNull == "field key's value is missing"
ErrKeyInvalid == "field key's value is invalid"
ErrValueMissing == "field value is missing"
ErrValueNull == "field value's value is missing"
ErrValueInvalid == "field value's value is invalid"

----------------------------------------------------------------------------
(* package tags: Tag and UserTag                                           *)

\* a plausible slip: the separator of Annotation.String
Tag_StringEquals(tag) == tag.Key \o <<"=">> \o tag.Value

\* Tag.String
Tag_String(tag) == tag.Key \o <<":">> \o tag.Value

\* a plausible slip: the timestamp key is not special-cased
Tag_EqualPlain(x, y) == x.Key = y.Key /\ x.Value = y.Value

\* a plausible slip: values that do not parse are compared as text
Tag_EqualUnparsedAsText(x, y) ==
    IF x.Key # y.Key THEN FALSE
    ELSE IF x.Key # KeyKnitTimestamp THEN x.Value = y.Value
    ELSE LET vA == ParseRFC3339DateTime(x.Value)
             vB == ParseRFC3339DateTime(y.Value)
         IN  IF vA.ok /\ vB.ok THEN Equiv(vA, vB) ELSE x.Value = y.Value

\* Tag.Equal
Tag_Equal(x, y) ==
    IF x.Key # y.Key THEN FALSE
    ELSE IF x.Key # KeyKnitTimestamp THEN x.Value = y.Value
    ELSE LET vA == ParseRFC3339DateTime(x.Value)
             vB == ParseRFC3339DateTime(y.Value)
         IN  vA.ok /\ vB.ok /\ Equiv(vA, vB)

\* strings.Cut at the last separator instead of the first
CutLast(s, sep) ==
    IF \E i \in 1..Len(s) : s[i] = sep
    THEN LET i == CHOOSE i \in 1..Len(s) :
                     s[i] = sep /\ \A j \in (i + 1)..Len(s) : s[j] # sep
         IN  [before |-> SubSeq(s, 1, i - 1),
              after  |-> SubSeq(s, i + 1, Len(s)),
              found  |-> TRUE]
    ELSE [before |-> s, after |-> <<>>, found |-> FALSE]

\* a plausible slip: the case of the transient key is missing from the switch
Tag_ParsePartsNoTransient(tag, cut) ==
    LET k == TrimSpace(cut.before)
        v == TrimSpace(cut.after)
    IN  IF ~cut.found
        THEN [err |-> ErrNoKey, tag |-> tag]
        ELSE IF k = KeyKnitTimestamp /\ ~ParseRFC3339DateTime(v).ok
        THEN [err |-> ErrNotTimestamp, tag |-> tag]
        ELSE [err |-> "", tag |-> [Key |-> k, Value |-> v]]

\* Tag.Parse after strings.Cut, on the receiver tag: the error returned ("" for
\* nil) and the receiver afterwards
Tag_ParseParts(tag, cut) ==
    LET k == TrimSpace(cut.before)
        v == TrimSpace(cut.after)
    IN  IF ~cut.found
        THEN [err |-> ErrNoKey, tag |-> tag]
        ELSE IF k = KeyKnitTimestamp /\ ~ParseRFC3339DateTime(v).ok
        THEN [err |-> ErrNotTimestamp, tag |-> tag]
        ELSE IF /\ k = KeyKnitTransient
                /\ v \notin {ValueKnitTransientProcessing,
                             ValueKnitTransientFailed,
                             ValueKnitTransientPurged}
        THEN [err |-> ErrTransientValue, tag |-> tag]
        ELSE [err |-> "", tag |-> [Key |-> k, Value |-> v]]

\* a plausible slip: the string is split at its last ':'
Tag_ParseLastColon(tag, s) == Tag_ParseParts(tag, CutLast(s, ":"))

\* Tag.Parse
Tag_Parse(tag, s) == Tag_ParseParts(tag, Cut(s, ":"))

\* a plausible slip: *ut is written before the prefix is looked at
Tag_AsUserTagAlwaysCopies(tag, u) ==
    [result |-> ~HasPrefix(tag.Key, SystemTagPrefix), ut |-> tag]

\* Tag.AsUserTag(ut): the boolean returned and *ut afterwards
Tag_AsUserTag(tag, u) ==
    IF HasPrefix(tag.Key, SystemTagPrefix)
    THEN [result |-> FALSE, ut |-> u]
    ELSE [result |-> TRUE, ut |-> tag]

\* a plausible slip: the value entry is looked at before the key entry
Tag_unarshalValueFirst(tag, dat) ==
    IF dat.kind = "null" THEN [err |-> ErrTagIsNil, tag |-> tag]
    ELSE IF dat.value.st = "missing" THEN [err |-> ErrValueMissing, tag |-> tag]
    ELSE IF dat.value.st = "null" THEN [err |-> ErrValueNull, tag |-> tag]
    ELSE IF dat.value.st # "string" THEN [err |-> ErrValueInvalid, tag |-> tag]
    ELSE LET valued == [tag EXCEPT !.Value = dat.value.str]
         IN  IF dat.key.st = "missing" THEN [err |-> ErrKeyMissing, tag |-> valued]
             ELSE IF dat.key.st = "null" THEN [err |-> ErrKeyNull, tag |-> valued]
             ELSE IF dat.key.st # "string" THEN [err |-> ErrKeyInvalid, tag |-> valued]
             ELSE [err |-> "", tag |-> [valued EXCEPT !.Key = dat.key.str]]

\* Tag.unarshal on the decoded map dat (key and value are the map's entries:
\* st is "missing", "null", "invalid" for a value that is no string, or "string")
Tag_unarshal(tag, dat) ==
    IF dat.kind = "null" THEN [err |-> ErrTagIsNil, tag |-> tag]
    ELSE IF dat.key.st = "missing" THEN [err |-> ErrKeyMissing, tag |-> tag]
    ELSE IF dat.key.st = "null" THEN [err |-> ErrKeyNull, tag |-> tag]
    ELSE IF dat.key.st # "string" THEN [err |-> ErrKeyInvalid, tag |-> tag]
    ELSE LET keyed == [tag EXCEPT !.Key = dat.key.str]
         IN  IF dat.value.st = "missing" THEN [err |-> ErrValueMissing, tag |-> keyed]
             ELSE IF dat.value.st = "null" THEN [err |-> ErrValueNull, tag |-> keyed]
             ELSE IF dat.value.st # "string" THEN [err |-> ErrValueInvalid, tag |-> keyed]
             ELSE [err |-> "", tag |-> [keyed EXCEPT !.Value = dat.value.str]]

\* a plausible slip: a string that Tag.Parse refuses falls through to the map
Tag_UnmarshalJSONFallsThrough(tag, d) ==
    IF d.kind \in {"string", "null"}
           /\ Tag_Parse(tag, IF d.kind = "string" THEN d.str ELSE <<>>).err = ""
    THEN Tag_Parse(tag, IF d.kind = "string" THEN d.str ELSE <<>>)
    ELSE IF d.kind # "object"
    THEN [err |-> ErrFailedToParseTag, tag |-> tag]
    ELSE Tag_unarshal(tag, d)

\* Tag.UnmarshalJSON: json.Unmarshal into a string succeeds on a JSON string and
\* on null (which leaves the string empty); into a map, on a JSON object
Tag_UnmarshalJSON(tag, d) ==
    IF d.kind \in {"string", "null"}
    THEN Tag_Parse(tag, IF d.kind = "string" THEN d.str ELSE <<>>)
    ELSE IF d.kind # "object"
    THEN [err |-> ErrFailedToParseTag, tag |-> tag]
    ELSE Tag_unarshal(tag, d)

\* Tag.UnmarshalYAML: Node.Decode into a string succeeds on every scalar node (a
\* string, a number, null: the string receives the node's text, "" for null);
\* into a map, on a mapping node
Tag_UnmarshalYAML(tag, n) ==
    IF n.kind \in {"string", "number", "null"}
    THEN Tag_Parse(tag, n.str)
    ELSE IF n.kind # "object"
    THEN [err |-> ErrFailedToParseTag, tag |-> tag]
    ELSE Tag_unarshal(tag, n)

\* a plausible slip: the reserved prefix is not looked at
UserTag_AcceptAny(u, r) ==
    IF r.err # "" THEN [err |-> r.err, tag |-> u] ELSE [err |-> "", tag |-> r.tag]

\* what UserTag.Parse and UserTag.UnmarshalJSON do with the outcome r of decoding
\* into the fresh Tag: the error returned and *ut afterwards
UserTag_Accept(u, r) ==
    IF r.err # "" THEN [err |-> r.err, tag |-> u]
    ELSE IF HasPrefix(r.tag.Key, SystemTagPrefix)
    THEN [err |-> ErrReserved, tag |-> u]
    ELSE [err |-> "", tag |-> r.tag]

UserTag_ParseUnchecked(u, s) == UserTag_AcceptAny(u, Tag_Parse(ZeroTag, s))

\* UserTag.Parse
UserTag_Parse(u, s) == UserTag_Accept(u, Tag_Parse(ZeroTag, s))

\* UserTag.UnmarshalJSON
UserTag_UnmarshalJSON(u, d) == UserTag_Accept(u, Tag_UnmarshalJSON(ZeroTag, d))

\* UserTag.Equal
UserTag_Equal(x, y) == Tag_Equal(x, y)

----------------------------------------------------------------------------
(* The strings the specifications draw their inputs from.                  *)

TimeUTC == <<"2", "0", "2", "4", "-", "0", "1", "-", "0", "1", "T", "0", "0", ":", "0", "0", ":", "0", "0", "Z">>
TimeJST == <<"2", "0", "2", "4", "-", "0", "1", "-", "0", "1", "T", "0", "9", ":", "0", "0", ":", "0", "0", "+", "0", "9", ":", "0", "0">>
TimeFraction == <<"2", "0", "2", "4", "-", "0", "1", "-", "0", "1", "T", "0", "0", ":", "0", "0", ":", "0", "0", ".", "0", "Z">>
TimeLater == <<"2", "0", "2", "4", "-", "0", "1", "-", "0", "1", "T", "0", "0", ":", "0", "0", ":", "0", "1", "Z">>
NotADate == <<"n", "o", "t", "-", "a", "-", "d", "a", "t", "e">>

\* the alphabet of the strings handed to the parsers
ParseTokens ==
    {KeyKnitTimestamp, KeyKnitTransient, KeyKnitId, <<"k">>, <<":">>, <<" ">>,
     ValueKnitTransientProcessing, TimeUTC}

ParseStrings == StrsOf(ParseTokens, MaxTokens)

\* a decoding target is either fresh or holds an earlier value
PriorTags == {ZeroTag, [Key |-> <<"o", "l", "d">>, Value |-> <<"v">>]}

StringData(s) == [NoData EXCEPT !.kind = "string", !.str = s]

\* the entries of a decoded JSON object
ObjectStrings ==
    {KeyKnitTimestamp, KeyKnitTransient, KeyKnitId, <<"k">>, <<" ", "k">>,
     <<"k", ":", "k">>, TimeUTC}
FieldInputs ==
    {[st |-> x, str |-> NoString] : x \in {"missing", "null", "invalid"}}
        \cup {[st |-> "string", str |-> x] : x \in ObjectStrings}

\* the JSON values and YAML nodes handed to the decoders of Tag and UserTag (a
\* number carries its text, which only the YAML decoder reads)
JSONInputs ==
    {StringData(s) : s \in ParseStrings}
        \cup {[kind |-> "object", str |-> NoString, key |-> k, value |-> v] :
                 k \in FieldInputs, v \in FieldInputs}
        \cup {[NoData EXCEPT !.kind = x] : x \in {"null", "array"}}
        \cup {[NoData EXCEPT !.kind = "number", !.str = <<"1">>]}

----------------------------------------------------------------------------
(* SpecEqual: Tag.Equal over pairs of Tags with plain and timestamp keys.  *)

EqualKeys == {KeyKnitTimestamp, KeyKnitId, <<"k">>}
EqualValues == {TimeUTC, TimeJST, TimeFraction, TimeLater, NotADate, <<"v">>}
EqualTags == [Key : EqualKeys, Value : EqualValues]

InitEqual ==
    /\ t \in EqualTags
    /\ o \in EqualTags
    /\ ut = ZeroTag /\ data = NoData
    /\ CmpIdle /\ ChangeIdle
    /\ pre = Targets
    /\ pc = "ready"
    /\ ret = NoRet

CallTagEqual ==
    /\ pc = "ready"
    /\ Return([NoRet EXCEPT !.op = "Tag.Equal", !.result = Tag_Equal(t, o)])
    /\ UNCHANGED <<a, b, eq, t, o, ut, data, doc, c, ac, pre>>

NextEqual == CallTagEqual

SpecEqual == InitEqual /\ [][NextEqual]_vars

----------------------------------------------------------------------------
(* SpecParse: the decoders of Tag and UserTag, each applied to one input.  *)

InitParse ==
    /\ data \in JSONInputs
    /\ t \in PriorTags
    /\ ut = t
    /\ o = ZeroTag
    /\ CmpIdle /\ ChangeIdle
    /\ pre = Targets
    /\ pc = "ready"
    /\ ret = NoRet

CallTagParse ==
    /\ pc = "ready"
    /\ data.kind = "string"
    /\ LET r == Tag_Parse(t, data.str)
       IN  /\ t' = r.tag
           /\ Return([op |-> "Tag.Parse", err |-> r.err, result |-> r.err = ""])
    /\ UNCHANGED <<a, b, eq, o, ut, data, doc, c, ac, pre>>

CallUserTagParse ==
    /\ pc = "ready"
    /\ data.kind = "string"
    /\ LET r == UserTag_Parse(ut, data.str)
       IN  /\ ut' = r.tag
           /\ Return([op |-> "UserTag.Parse", err |-> r.err, result |-> r.err = ""])
    /\ UNCHANGED <<a, b, eq, t, o, data, doc, c, ac, pre>>

CallTagUnmarshalJSON ==
    /\ pc = "ready"
    /\ LET r == Tag_UnmarshalJSON(t, data)
       IN  /\ t' = r.tag
           /\ Return([op |-> "Tag.UnmarshalJSON", err |-> r.err, result |-> r.err = ""])
    /\ UNCHANGED <<a, b, eq, o, ut, data, doc, c, ac, pre>>

CallUserTagUnmarshalJSON ==
    /\ pc = "ready"
    /\ LET r == UserTag_UnmarshalJSON(ut, data)
       IN  /\ ut' = r.tag
           /\ Return([op |-> "UserTag.UnmarshalJSON", err |-> r.err,
                      result |-> r.err = ""])
    /\ UNCHANGED <<a, b, eq, t, o, data, doc, c, ac, pre>>

CallTagUnmarshalYAML ==
    /\ pc = "ready"
    /\ LET r == Tag_UnmarshalYAML(t, data)
       IN  /\ t' = r.tag
           /\ Return([op |-> "Tag.UnmarshalYAML", err |-> r.err, result |-> r.err = ""])
    /\ UNCHANGED <<a, b, eq, o, ut, data, doc, c, ac, pre>>

NextParse ==
    \/ CallTagParse
    \/ CallUserTagParse
    \/ CallTagUnmarshalJSON
    \/ CallUserTagUnmarshalJSON
    \/ CallTagUnmarshalYAML

SpecParse == InitParse /\ [][NextParse]_vars

----------------------------------------------------------------------------
(* json.Marshal of a Tag and of a UserTag.  Tag has a MarshalJSON method,   *)
(* whose bytes json.Marshal checks to be valid JSON.  UserTag is declared   *)
(* as "type UserTag Tag": a defined type has the fields of its underlying   *)
(* type and none of its methods, so a UserTag is encoded as the struct it   *)
(* is, under the names of its json field tags.                             *)

ErrJSONSyntax == "json: error calling MarshalJSON: invalid character"

\* the characters that end or escape a JSON string literal
JSONUnsafe == {"\"", "\\"}

\* json.Marshal(t) for a Tag t (Tag.MarshalJSON: the text between two quotes)
Tag_MarshalJSON(tag) ==
    IF \E i \in 1..Len(Tag_String(tag)) : Tag_String(tag)[i] \in JSONUnsafe
    THEN [err |-> ErrJSONSyntax, data |-> NoData]
    ELSE [err |-> "", data |-> StringData(Tag_String(tag))]

\* json.Marshal(u) for a UserTag u: the struct encoding {"key":..,"value":..}
UserTag_Marshal(u) ==
    [err  |-> "",
     data |-> [kind |-> "object", str |-> NoString,
               key |-> [st |-> "string", str |-> u.Key],
               value |-> [st |-> "string", str |-> u.Value]]]

----------------------------------------------------------------------------
(* SpecFormat: operations on a Tag value that was constructed directly     *)
(* (the struct's fields are exported, so any key and value can occur).     *)

FormatKeyTokens ==
    {KeyKnitTimestamp, KeyKnitTransient, KeyKnitId, <<"k">>, <<":">>, <<" ">>}
FormatValues ==
    {NoString, <<"v">>, <<" ", "v">>, <<"v", " ">>, <<"a", ":", "b">>,
     ValueKnitTransientProcessing, ValueKnitTransientFailed, TimeUTC, TimeJST,
     NotADate}
FormatTags == [Key : StrsOf(FormatKeyTokens, MaxKeyTokens), Value : FormatValues]

InitFormat ==
    /\ t \in FormatTags
    /\ ut \in PriorTags
    /\ o = ZeroTag
    /\ data = NoData
    /\ CmpIdle /\ ChangeIdle
    /\ pre = Targets
    /\ pc = "ready"
    /\ ret = NoRet

\* var o Tag; err := o.Parse(t.String())
CallFormatThenParse ==
    /\ pc = "ready"
    /\ LET r == Tag_Parse(o, Tag_String(t))
       IN  /\ o' = r.tag
           /\ Return([op |-> "Tag.String;Tag.Parse", err |-> r.err,
                      result |-> r.err = ""])
    /\ UNCHANGED <<a, b, eq, t, ut, data, doc, c, ac, pre>>

CallAsUserTag ==
    /\ pc = "ready"
    /\ LET r == Tag_AsUserTag(t, ut)
       IN  /\ ut' = r.ut
           /\ Return([op |-> "Tag.AsUserTag", err |-> "", result |-> r.result])
    /\ UNCHANGED <<a, b, eq, t, o, data, doc, c, ac, pre>>

\* json.Marshal(t)
CallTagMarshalJSON ==
    /\ pc = "ready"
    /\ LET r == Tag_MarshalJSON(t)
       IN  /\ data' = r.data
           /\ Return([op |-> "json.Marshal(Tag)", err |-> r.err, result |-> r.err = ""])
    /\ UNCHANGED <<a, b, eq, t, o, ut, doc, c, ac, pre>>

\* if t.AsUserTag(&ut) { json.Marshal(ut) }
CallUserTagMarshal ==
    /\ pc = "ready"
    /\ Tag_AsUserTag(t, ut).result
    /\ ut' = Tag_AsUserTag(t, ut).ut
    /\ LET r == UserTag_Marshal(Tag_AsUserTag(t, ut).ut)
       IN  /\ data' = r.data
           /\ Return([op |-> "json.Marshal(UserTag)", err |-> r.err,
                      result |-> r.err = ""])
    /\ UNCHANGED <<a, b, eq, t, o, doc, c, ac, pre>>

\* var x, y Tag; json.Unmarshal of the string "K:V" into x and of the object
\* {"key": K, "value": V} into y, K and V being the fields of t
CallDecodeBothForms ==
    /\ pc = "ready"
    /\ LET x == Tag_UnmarshalJSON(ZeroTag, StringData(t.Key \o <<":">> \o t.Value))
           y == Tag_UnmarshalJSON(ZeroTag,
                    [kind |-> "object", str |-> NoString,
                     key |-> [st |-> "string", str |-> t.Key],
                     value |-> [st |-> "string", str |-> t.Value]])
       IN  Return([op |-> "Tag.UnmarshalJSON(string);Tag.UnmarshalJSON(object)",
                   err |-> x.err, result |-> x.err = "",
                   string |-> x, object |-> y])
    /\ UNCHANGED <<a, b, eq, t, o, ut, data, doc, c, ac, pre>>

NextFormat ==
    \/ CallFormatThenParse
    \/ CallAsUserTag
    \/ CallTagMarshalJSON
    \/ CallUserTagMarshal
    \/ CallDecodeBothForms

SpecFormat == InitFormat /\ [][NextFormat]_vars

----------------------------------------------------------------------------
(* encoding/json, as far as the change-set decoders rely on it.  A         *)
(* document is a JSON object: order lists the members "add", "remove" and  *)
(* "remove_key" that are present, in the order they appear, and the        *)
(* like-named fields hold the elements of their arrays.  The decoder       *)
(* walks the members in that order.  An error returned by an element's     *)
(* UnmarshalJSON ends the decoding at once; a JSON value that does not fit *)
(* a Go string is recorded, skipped, and reported at the end.              *)

ErrJSONType == "json: cannot unmarshal into Go value of type string"
ErrAnnotationFormat == "annotation format error (should be key=value)"

\* elements 1..n of a slice that is decoded into: the decoded elements so far,
\* then what the slice held before (or one zero element) from the failing one on
Partial(decoded, old, zero) ==
    LET n == Len(decoded) + 1
    IN  decoded \o (IF Len(old) >= n THEN SubSeq(old, n, Len(old)) ELSE <<zero>>)

\* []UserTag: each element through UserTag.UnmarshalJSON, stopping at the first
\* error; r is the outcome of decoding the head of elems
RECURSIVE DecodeUserTags(_, _), DecodeUserTagsFrom(_, _, _)
DecodeUserTagsFrom(elems, decoded, r) ==
    IF r.err # ""
    THEN [err |-> r.err, out |-> Partial(decoded, <<>>, ZeroTag)]
    ELSE DecodeUserTags(Tail(elems), Append(decoded, r.tag))

DecodeUserTags(elems, decoded) ==
    IF elems = <<>>
    THEN [err |-> "", out |-> decoded]
    ELSE DecodeUserTagsFrom(elems, decoded, UserTag_UnmarshalJSON(ZeroTag, Head(elems)))

\* []string: an element that is no JSON string stays "" and is recorded
DecodeStrings(elems) ==
    [typeErr |-> \E i \in 1..Len(elems) : elems[i].kind # "string",
     out     |-> [i \in 1..Len(elems) |->
                     IF elems[i].kind = "string" THEN elems[i].str ELSE NoString]]

\* the first recorded error is the one kept
SaveError(saved, typeErr) == IF saved = "" /\ typeErr THEN ErrJSONType ELSE saved

\* json.Unmarshal(data, &r) for the raw struct of Change.UnmarshalJSON, from
\* member k of the document on; saved is the recorded type error, us and ks the
\* outcome of decoding the array of member k
RECURSIVE DecodeRawChange(_, _, _, _), DecodeRawTags(_, _, _, _, _),
          DecodeRawKeys(_, _, _, _, _)
DecodeRawTags(d, k, r, saved, us) ==
    IF us.err # ""
    THEN [err |-> us.err,
          raw |-> IF d.order[k] = "add" THEN [r EXCEPT !.AddTags = us.out]
                                        ELSE [r EXCEPT !.RemoveTags = us.out]]
    ELSE DecodeRawChange(d, k + 1,
                         IF d.order[k] = "add" THEN [r EXCEPT !.AddTags = us.out]
                                               ELSE [r EXCEPT !.RemoveTags = us.out],
                         saved)

DecodeRawKeys(d, k, r, saved, ks) ==
    DecodeRawChange(d, k + 1, [r EXCEPT !.RemoveKey = ks.out], SaveError(saved, ks.typeErr))

DecodeRawChange(d, k, r, saved) ==
    IF k > Len(d.order)
    THEN [err |-> saved, raw |-> r]
    ELSE IF d.order[k] = "remove_key"
    THEN DecodeRawKeys(d, k, r, saved, DecodeStrings(d.remove_key))
    ELSE DecodeRawTags(d, k, r, saved,
                       DecodeUserTags(IF d.order[k] = "add" THEN d.add ELSE d.remove, <<>>))

HasSystemKey(keys) == \E i \in 1..Len(keys) : HasPrefix(keys[i], SystemTagPrefix)

\* a plausible slip: the loop over RemoveKey is missing
Change_StoreUnchecked(ch, r) ==
    IF r.err # "" THEN [err |-> r.err, c |-> ch] ELSE [err |-> "", c |-> r.raw]

\* a plausible slip: RemoveKey is checked before the decoding error is looked at
Change_StoreCheckFirst(ch, r) ==
    IF HasSystemKey(r.raw.RemoveKey) THEN [err |-> ErrNotRemovable, c |-> ch]
    ELSE IF r.err # "" THEN [err |-> r.err, c |-> ch]
    ELSE [err |-> "", c |-> r.raw]

\* Change.UnmarshalJSON once json.Unmarshal has returned r: the error returned
\* and the receiver afterwards
Change_Store(ch, r) ==
    IF r.err # "" THEN [err |-> r.err, c |-> ch]
    ELSE IF HasSystemKey(r.raw.RemoveKey) THEN [err |-> ErrNotRemovable, c |-> ch]
    ELSE [err |-> "", c |-> r.raw]

Change_UnmarshalJSONNoKeyCheck(ch, d) ==
    Change_StoreUnchecked(ch, DecodeRawChange(d, 1, ZeroChange, ""))

Change_UnmarshalJSONCheckFirst(ch, d) ==
    Change_StoreCheckFirst(ch, DecodeRawChange(d, 1, ZeroChange, ""))

\* Change.UnmarshalJSON
Change_UnmarshalJSON(ch, d) == Change_Store(ch, DecodeRawChange(d, 1, ZeroChange, ""))

----------------------------------------------------------------------------
(* package plans: Annotation and AnnotationChange                          *)

\* a *Image is nil or points to an Image
NilImage == [nil |-> TRUE, Repository |-> NoString, Tag |-> NoString]

ErrNilDereference == "panic: runtime error: invalid memory address or nil pointer dereference"

\* a plausible slip: the fields are compared without the nil test
Image_EqualNoNilTest(i, other) ==
    IF i.nil \/ other.nil
    THEN [panic |-> TRUE, result |-> FALSE]
    ELSE [panic |-> FALSE,
          result |-> i.Repository = other.Repository /\ i.Tag = other.Tag]

\* Image.Equal on the pointers i and other: a field is read only behind the nil
\* test
Image_Equal(i, other) ==
    IF i.nil \/ other.nil
    THEN [panic |-> FALSE, result |-> i.nil /\ other.nil]
    ELSE [panic |-> FALSE,
          result |-> i.Repository = other.Repository /\ i.Tag = other.Tag]

\* a plausible slip: the reserved prefix of package tags is refused here too
Annotation_parsePartsReserved(an, cut) ==
    IF ~cut.found \/ HasPrefix(TrimSpace(cut.before), SystemTagPrefix)
    THEN [err |-> ErrAnnotationFormat, an |-> an]
    ELSE [err |-> "",
          an  |-> [Key |-> TrimSpace(cut.before), Value |-> TrimSpace(cut.after)]]

\* Annotation.parse after strings.Cut, on the receiver an
Annotation_parseParts(an, cut) ==
    IF ~cut.found
    THEN [err |-> ErrAnnotationFormat, an |-> an]
    ELSE [err |-> "",
          an  |-> [Key |-> TrimSpace(cut.before), Value |-> TrimSpace(cut.after)]]

Annotation_parseReserved(an, s) == Annotation_parsePartsReserved(an, Cut(s, "="))

\* Annotation.parse
Annotation_parse(an, s) == Annotation_parseParts(an, Cut(s, "="))

\* a plausible slip: the object form is taken for an Annotation too
Annotation_UnmarshalJSONAnyForm(an, d) ==
    IF d.kind = "object" /\ d.key.st = "string" /\ d.value.st = "string"
    THEN [err |-> "", an |-> [Key |-> d.key.str, Value |-> d.value.str]]
    ELSE IF d.kind \notin {"string", "null"}
    THEN [err |-> ErrJSONType, an |-> an]
    ELSE Annotation_parse(an, IF d.kind = "string" THEN d.str ELSE <<>>)

\* Annotation.UnmarshalJSON: json.Unmarshal into a string succeeds on a JSON
\* string and on null, which leaves the string empty
Annotation_UnmarshalJSON(an, d) ==
    IF d.kind \notin {"string", "null"}
    THEN [err |-> ErrJSONType, an |-> an]
    ELSE Annotation_parse(an, IF d.kind = "string" THEN d.str ELSE <<>>)

\* what the slice old holds at index n, the zero Annotation beyond its length
ElementAt(old, n) == IF Len(old) >= n THEN old[n] ELSE ZeroTag

\* Annotations ([]Annotation) decoded into the slice old, stopping at the first
\* error; r is the outcome of decoding the head of elems
RECURSIVE DecodeAnnotations(_, _, _), DecodeAnnotationsFrom(_, _, _, _)
DecodeAnnotationsFrom(elems, decoded, old, r) ==
    IF r.err # ""
    THEN [err |-> r.err, out |-> Partial(decoded, old, ZeroTag)]
    ELSE DecodeAnnotations(Tail(elems), Append(decoded, r.an), old)

DecodeAnnotations(elems, decoded, old) ==
    IF elems = <<>>
    THEN [err |-> "", out |-> decoded]
    ELSE DecodeAnnotationsFrom(elems, decoded, old,
             Annotation_UnmarshalJSON(ElementAt(old, Len(decoded) + 1), Head(elems)))

\* json.Unmarshal(data, &ac) for an AnnotationChange, which has no UnmarshalJSON
\* of its own: the members are decoded straight into the target's fields
RECURSIVE DecodeAnnotationChange(_, _, _, _), DecodeChangeAnnotations(_, _, _, _, _),
          DecodeChangeKeys(_, _, _, _, _)
DecodeChangeAnnotations(d, k, target, saved, as) ==
    IF as.err # ""
    THEN [err |-> as.err,
          ac  |-> IF d.order[k] = "add" THEN [target EXCEPT !.Add = as.out]
                                        ELSE [target EXCEPT !.Remove = as.out]]
    ELSE DecodeAnnotationChange(d, k + 1,
                                IF d.order[k] = "add" THEN [target EXCEPT !.Add = as.out]
                                                      ELSE [target EXCEPT !.Remove = as.out],
                                saved)

DecodeChangeKeys(d, k, target, saved, ks) ==
    DecodeAnnotationChange(d, k + 1, [target EXCEPT !.RemoveKey = ks.out],
                           SaveError(saved, ks.typeErr))

DecodeAnnotationChange(d, k, target, saved) ==
    IF k > Len(d.order)
    THEN [err |-> saved, ac |-> target]
    ELSE IF d.order[k] = "remove_key"
    THEN DecodeChangeKeys(d, k, target, saved, DecodeStrings(d.remove_key))
    ELSE DecodeChangeAnnotations(d, k, target, saved,
             IF d.order[k] = "add"
             THEN DecodeAnnotations(d.add, <<>>, target.Add)
             ELSE DecodeAnnotations(d.remove, <<>>, target.Remove))

AnnotationChange_Unmarshal(target, d) == DecodeAnnotationChange(d, 1, target, "")

----------------------------------------------------------------------------
(* Annotations.MarshalJSON: strings.Compare, slices.SortFunc (an insertion  *)
(* sort for slices this short) and json.Marshal of the sorted copy.        *)

\* the characters from the space (byte 32) to the underscore (95), and the
\* small letters (97 to 122), each in the order of their bytes
Ascii ==
    <<" ", "!", "\"", "#", "$", "%", "&", "'", "(", ")", "*", "+",
      ",", "-", ".", "/", "0", "1", "2", "3", "4", "5", "6", "7",
      "8", "9", ":", ";", "<", "=", ">", "?", "@", "A", "B", "C",
      "D", "E", "F", "G", "H", "I", "J", "K", "L", "M", "N", "O",
      "P", "Q", "R", "S", "T", "U", "V", "W", "X", "Y", "Z", "[",
      "\\", "]", "^", "_">>
Lower ==
    <<"a", "b", "c", "d", "e", "f", "g", "h", "i", "j", "k", "l", "m",
      "n", "o", "p", "q", "r", "s", "t", "u", "v", "w", "x", "y", "z">>

ByteOf(ch) ==
    IF \E i \in 1..Len(Lower) : Lower[i] = ch
    THEN 96 + (CHOOSE i \in 1..Len(Lower) : Lower[i] = ch)
    ELSE 31 + (CHOOSE i \in 1..Len(Ascii) : Ascii[i] = ch)

\* strings.Compare
Compare(x, y) ==
    LET n == IF Len(x) < Len(y) THEN Len(x) ELSE Len(y)
        differ == {i \in 1..n : x[i] # y[i]}
        first == CHOOSE i \in differ : \A j \in differ : i <= j
    IN  IF differ # {}
        THEN IF ByteOf(x[first]) < ByteOf(y[first]) THEN -1 ELSE 1
        ELSE IF Len(x) < Len(y) THEN -1
        ELSE IF Len(x) > Len(y) THEN 1
        ELSE 0

\* a plausible slip: the value is left out of the comparison
CompareKeyOnly(i, j) == Compare(i.Key, j.Key)

\* the comparison function of Annotations.marshal
CompareKeyValue(i, j) ==
    IF Compare(i.Key, j.Key) # 0
    THEN Compare(i.Key, j.Key)
    ELSE Compare(i.Value, j.Value)

\* the inner loop of the insertion sort: x moves left past every element it is
\* less than
RECURSIVE InsertSorted(_, _)
InsertSorted(sorted, x) ==
    IF sorted # <<>> /\ CompareKeyValue(x, sorted[Len(sorted)]) < 0
    THEN Append(InsertSorted(SubSeq(sorted, 1, Len(sorted) - 1), x), sorted[Len(sorted)])
    ELSE Append(sorted, x)

\* slices.SortFunc(s, cmp)
RECURSIVE SortFunc(_)
SortFunc(s) ==
    IF s = <<>> THEN <<>>
    ELSE InsertSorted(SortFunc(SubSeq(s, 1, Len(s) - 1)), s[Len(s)])

\* a plausible slip: the elements are emitted in the order they are held in
Annotations_marshalUnsorted(ans) == [out |-> ans, ans |-> ans]

\* Annotations.marshal: what is returned and the receiver's slice afterwards
Annotations_marshal(ans) == [out |-> SortFunc(ans), ans |-> ans]

\* a plausible slip: the key is put on both sides of the '='
Annotation_StringKeyTwice(an) == an.Key \o <<"=">> \o an.Key

\* Annotation.String
Annotation_String(an) == an.Key \o <<"=">> \o an.Value

\* Annotation.MarshalJSON: json.Marshal of the string, which escapes what a JSON
\* string cannot hold, so the literal stands for exactly that text
Annotation_MarshalJSON(an) == StringData(Annotation_String(an))

\* json.Marshal of the elements, each through Annotation.MarshalJSON
MarshalAnnotations(r) ==
    [err |-> "",
     out |-> [i \in 1..Len(r.out) |-> Annotation_MarshalJSON(r.out[i])],
     ans |-> r.ans]

\* Annotations.MarshalJSON
Annotations_MarshalJSON(ans) == MarshalAnnotations(Annotations_marshal(ans))

\* Annotation.Equal
Annotation_Equal(x, y) == x.Key = y.Key /\ x.Value = y.Value

\* Annotations.Equal: cmp.SliceEqualUnordered under Annotation.Equal
Annotations_Equal(xs, ys) ==
    SliceEqualUnordered(xs, ys,
        {p \in {xs[i] : i \in 1..Len(xs)} \X {ys[i] : i \in 1..Len(ys)} :
            Annotation_Equal(p[1], p[2])})

----------------------------------------------------------------------------
(* The documents handed to the change-set decoders.                        *)

Members == {"add", "remove", "remove_key"}

\* the members present, in every order
MemberOrders ==
    {ord \in SeqsUpTo(Members, 3) : \A i, j \in 1..Len(ord) : ord[i] = ord[j] => i = j}

NumberData == [NoData EXCEPT !.kind = "number"]
ObjectData(k, v) == [kind |-> "object", str |-> NoString, key |-> k, value |-> v]

\* elements of "add" and "remove" of a Change: two user tags, a system tag (bare,
\* padded, and in object form), a string without ':', an object without value
TagElements ==
    {StringData(<<"k", ":", "v">>),
     StringData(KeyKnitId \o <<":", "x">>),
     StringData(<<" ">> \o KeyKnitId \o <<":", "x">>),
     StringData(<<"k">>),
     ObjectData([st |-> "string", str |-> KeyKnitId], [st |-> "string", str |-> <<"x">>]),
     ObjectData([st |-> "string", str |-> <<"k">>], [st |-> "missing", str |-> NoString])}

\* elements of "remove_key": a user key, a system key (bare and padded), a number
KeyElements ==
    {StringData(<<"k">>), StringData(KeyKnitId),
     StringData(<<" ">> \o KeyKnitId), NumberData}

\* elements of "add" and "remove" of an AnnotationChange
AnnotationElements ==
    {StringData(<<"k", "=", "v">>),
     StringData(KeyKnitId \o <<"=", "x">>),
     StringData(<<" ", "j", " ", "=", "=", "w">>),
     StringData(<<"k">>),
     NumberData}

\* the documents over the given elements with at most n elements in all
Documents(tagLike, keyLike, n) ==
    UNION {
        { [order |-> ord, add |-> x, remove |-> y, remove_key |-> z] :
              x \in [1..len[1] -> tagLike],
              y \in [1..len[2] -> tagLike],
              z \in [1..len[3] -> keyLike] }
        : <<ord, len>> \in
            { p \in MemberOrders \X ((0..n) \X (0..n) \X (0..n)) :
                /\ p[2][1] + p[2][2] + p[2][3] <= n
                /\ (p[2][1] > 0 => \E i \in 1..Len(p[1]) : p[1][i] = "add")
                /\ (p[2][2] > 0 => \E i \in 1..Len(p[1]) : p[1][i] = "remove")
                /\ (p[2][3] > 0 => \E i \in 1..Len(p[1]) : p[1][i] = "remove_key") } }

PriorChanges ==
    {ZeroChange,
     [AddTags |-> <<[Key |-> <<"o", "l", "d">>, Value |-> <<"v">>]>>,
      RemoveTags |-> <<>>,
      RemoveKey |-> <<<<"o", "l", "d">>>>]}

PriorAnnotationChanges ==
    {ZeroAnnotationChange,
     [Add |-> <<[Key |-> <<"o", "l", "d">>, Value |-> <<"v">>]>>,
      Remove |-> <<>>,
      RemoveKey |-> <<<<"o", "l", "d">>>>]}

----------------------------------------------------------------------------
(* SpecChange: Change.UnmarshalJSON applied to one document.               *)

InitChange ==
    /\ doc \in Documents(TagElements, KeyElements, MaxElems)
    /\ c \in PriorChanges
    /\ ac = ZeroAnnotationChange
    /\ CmpIdle /\ TagIdle
    /\ pre = Targets
    /\ pc = "ready"
    /\ ret = NoRet

CallChangeUnmarshalJSON ==
    /\ pc = "ready"
    /\ LET r == Change_UnmarshalJSON(c, doc)
       IN  /\ c' = r.c
           /\ Return([op |-> "Change.UnmarshalJSON", err |-> r.err,
                      result |-> r.err = ""])
    /\ UNCHANGED <<a, b, eq, t, o, ut, data, doc, ac, pre>>

NextChange == CallChangeUnmarshalJSON

SpecChange == InitChange /\ [][NextChange]_vars

----------------------------------------------------------------------------
(* SpecPlan: json.Unmarshal into an AnnotationChange, applied to one       *)
(* document.                                                               *)

InitPlan ==
    /\ doc \in Documents(AnnotationElements, KeyElements, MaxElems)
    /\ ac \in PriorAnnotationChanges
    /\ c = ZeroChange
    /\ CmpIdle /\ TagIdle
    /\ pre = Targets
    /\ pc = "ready"
    /\ ret = NoRet

CallAnnotationChangeUnmarshal ==
    /\ pc = "ready"
    /\ LET r == AnnotationChange_Unmarshal(ac, doc)
       IN  /\ ac' = r.ac
           /\ Return([op |-> "AnnotationChange", err |-> r.err, result |-> r.err = ""])
    /\ UNCHANGED <<a, b, eq, t, o, ut, data, doc, c, pre>>

NextPlan == CallAnnotationChangeUnmarshal

SpecPlan == InitPlan /\ [][NextPlan]_vars

----------------------------------------------------------------------------
(* SpecCmp: cmp.SliceEqualUnordered over every pair of short slices and    *)
(* every Equal relation on a two-valued element type.                      *)

Elem == {"x", "y"}

InitCmp ==
    /\ a \in SeqsUpTo(Elem, MaxLen)
    /\ b \in SeqsUpTo(Elem, MaxLen)
    /\ eq \in SUBSET (Elem \X Elem)
    /\ TagIdle /\ ChangeIdle
    /\ pre = Targets
    /\ pc = "ready"
    /\ ret = NoRet

CallSliceEqualUnordered ==
    /\ pc = "ready"
    /\ Return([NoRet EXCEPT !.op = "SliceEqualUnordered",
                            !.result = SliceEqualUnordered(a, b, eq)])
    /\ UNCHANGED <<a, b, eq, t, o, ut, data, doc, c, ac, pre>>

NextCmp == CallSliceEqualUnordered

SpecCmp == InitCmp /\ [][NextCmp]_vars

----------------------------------------------------------------------------
(* SpecAnnotations: Annotations.MarshalJSON, and json.Unmarshal applied to  *)
(* its output, over the short collections of Annotations built directly    *)
(* (the fields are exported, so any key and value can occur).  a is the    *)
(* collection, b the collection decoded from its JSON.                     *)

MaxAnnotations == 3

AnnotationKeys == {<<"a">>, <<"a", "b">>, <<"b">>, <<"a", "=">>, <<" ", "a">>}
AnnotationValues == {NoString, <<"1">>, <<"2">>}
AnnotationSet == [Key : AnnotationKeys, Value : AnnotationValues]

InitAnnotations ==
    /\ a \in SeqsUpTo(AnnotationSet, MaxAnnotations)
    /\ b = <<>> /\ eq = {}
    /\ TagIdle /\ ChangeIdle
    /\ pre = Targets
    /\ pc = "ready"
    /\ ret = NoRet

\* json.Marshal(a)
CallAnnotationsMarshalJSON ==
    /\ pc = "ready"
    /\ LET r == Annotations_MarshalJSON(a)
       IN  /\ a' = r.ans
           /\ Return([op |-> "Annotations.MarshalJSON", err |-> r.err,
                      result |-> r.err = "", out |-> r.out])
    /\ UNCHANGED <<b, eq, t, o, ut, data, doc, c, ac, pre>>

\* marshalled, _ := json.Marshal(a); got := Annotations{};
\* err := json.Unmarshal(marshalled, &got); cmp.SliceEqualUnordered(got, a)
CallMarshalThenUnmarshal ==
    /\ pc = "ready"
    /\ LET m == Annotations_MarshalJSON(a)
           r == DecodeAnnotations(m.out, <<>>, <<>>)
       IN  /\ a' = m.ans
           /\ b' = r.out
           /\ Return([op |-> "Annotations.MarshalJSON;json.Unmarshal", err |-> r.err,
                      result |-> Annotations_Equal(r.out, m.ans), out |-> m.out])
    /\ UNCHANGED <<eq, t, o, ut, data, doc, c, ac, pre>>

NextAnnotations ==
    \/ CallAnnotationsMarshalJSON
    \/ CallMarshalThenUnmarshal

SpecAnnotations == InitAnnotations /\ [][NextAnnotations]_vars

----------------------------------------------------------------------------
(* SpecAnnotation: Annotation.UnmarshalJSON applied to one JSON value; the  *)
(* Annotation decoded into is held in t.                                   *)

AnnotationTokens == {<<"k">>, <<"=">>, <<" ">>, <<":">>, KeyKnitId}

AnnotationInputs ==
    {StringData(s) : s \in StrsOf(AnnotationTokens, MaxTokens)}
        \cup {[kind |-> "object", str |-> NoString, key |-> k, value |-> v] :
                 k \in FieldInputs, v \in FieldInputs}
        \cup {[NoData EXCEPT !.kind = x] : x \in {"null", "number", "array"}}

InitAnnotation ==
    /\ data \in AnnotationInputs
    /\ t \in PriorTags
    /\ o = ZeroTag /\ ut = ZeroTag
    /\ CmpIdle /\ ChangeIdle
    /\ pre = Targets
    /\ pc = "ready"
    /\ ret = NoRet

CallAnnotationUnmarshalJSON ==
    /\ pc = "ready"
    /\ LET r == Annotation_UnmarshalJSON(t, data)
       IN  /\ t' = r.an
           /\ Return([op |-> "Annotation.UnmarshalJSON", err |-> r.err,
                      result |-> r.err = ""])
    /\ UNCHANGED <<a, b, eq, o, ut, data, doc, c, ac, pre>>

NextAnnotation == CallAnnotationUnmarshalJSON

SpecAnnotation == InitAnnotation /\ [][NextAnnotation]_vars

----------------------------------------------------------------------------
(* SpecImage: Image.Equal over every pair of *Image, nil included; t is the  *)
(* receiver and o the argument.                                            *)

Repositories == {<<"r">>, <<"s">>, <<"r", "/", "s">>}
ImageTags == {<<"1">>, <<"2">>, <<"v", "1">>}
Images == {NilImage} \cup [nil : {FALSE}, Repository : Repositories, Tag : ImageTags]

InitImage ==
    /\ t \in Images
    /\ o \in Images
    /\ ut = ZeroTag /\ data = NoData
    /\ CmpIdle /\ ChangeIdle
    /\ pre = Targets
    /\ pc = "ready"
    /\ ret = NoRet

CallImageEqual ==
    /\ pc = "ready"
    /\ LET r == Image_Equal(t, o)
       IN  Return([op |-> "Image.Equal",
                   err |-> IF r.panic THEN ErrNilDereference ELSE "",
                   result |-> r.result])
    /\ UNCHANGED <<a, b, eq, t, o, ut, data, doc, c, ac, pre>>

NextImage == CallImageEqual

SpecImage == InitImage /\ [][NextImage]_vars

----------------------------------------------------------------------------
(* SpecMap: cmp.MapEqualWith over every pair of small maps, every predicate *)
(* on the values and every order in which range can yield the keys of a.   *)

MapKeys == {"k1", "k2"}
Maps == UNION {[d -> Elem] : d \in SUBSET MapKeys}

\* the orders in which range can yield the keys of mp
RangeOrders(mp) ==
    {ord \in SeqsUpTo(MapKeys, Cardinality(MapKeys)) :
        /\ Len(ord) = Cardinality(DOMAIN mp)
        /\ {ord[i] : i \in 1..Len(ord)} = DOMAIN mp}

InitMap ==
    /\ a \in Maps
    /\ b \in Maps
    /\ eq \in SUBSET (Elem \X Elem)
    /\ TagIdle /\ ChangeIdle
    /\ pre = Targets
    /\ pc = "ready"
    /\ ret = NoRet

CallMapEqualWith ==
    /\ pc = "ready"
    /\ \E order \in RangeOrders(a) :
          LET r == MapEqualWith(a, b, eq, order)
          IN  Return([op |-> "MapEqualWith", err |-> "", result |-> r.result,
                      applied |-> r.applied])
    /\ UNCHANGED <<a, b, eq, t, o, ut, data, doc, c, ac, pre>>

NextMap == CallMapEqualWith

SpecMap == InitMap /\ [][NextMap]_vars

----------------------------------------------------------------------------
(* SpecEquivalence: cmp.SliceEqualUnordered over slices of a three-valued   *)
(* element type whose Equal is an equivalence relation.                    *)

Elem3 == {"x", "y", "z"}

Reflexive(equal, S) == \A x \in S : <<x, x>> \in equal

Equivalences ==
    {r \in SUBSET (Elem3 \X Elem3) :
        /\ Reflexive(r, Elem3)
        /\ \A p \in r : <<p[2], p[1]>> \in r
        /\ \A p, q \in r : p[2] = q[1] => <<p[1], q[2]>> \in r}

InitEquivalence ==
    /\ a \in SeqsUpTo(Elem3, MaxLen)
    /\ b \in SeqsUpTo(Elem3, MaxLen)
    /\ eq \in Equivalences
    /\ TagIdle /\ ChangeIdle
    /\ pre = Targets
    /\ pc = "ready"
    /\ ret = NoRet

SpecEquivalence == InitEquivalence /\ [][CallSliceEqualUnordered]_vars

----------------------------------------------------------------------------
(* SpecTagRelation: Tag.Equal over every pair out of three Tags, and        *)
(* cmp.SliceEqualUnordered of the list of the three Tags with itself, as    *)
(* Mountpoint.Equal calls it on its Tags field.                            *)

\* the relation Tag.Equal is on the Tags of xs
TagEqualOn(xs) ==
    {p \in {xs[i] : i \in DOMAIN xs} \X {xs[i] : i \in DOMAIN xs} :
        Tag_Equal(p[1], p[2])}

InitTagRelation ==
    /\ t \in EqualTags
    /\ o \in EqualTags
    /\ ut \in EqualTags
    /\ a = <<t, o, ut>>
    /\ b = <<>> /\ eq = {}
    /\ data = NoData
    /\ ChangeIdle
    /\ pre = Targets
    /\ pc = "ready"
    /\ ret = NoRet

\* x.Equal(y) for every x and y of a
CallTagEqualPairs ==
    /\ pc = "ready"
    /\ Return([op |-> "Tag.Equal (pairs)", err |-> "",
               result |-> Tag_Equal(t, o),
               equal |-> [i \in DOMAIN a |-> [j \in DOMAIN a |-> Tag_Equal(a[i], a[j])]]])
    /\ UNCHANGED <<a, b, eq, t, o, ut, data, doc, c, ac, pre>>

\* cmp.SliceEqualUnordered(a, a) with Tag.Equal as the elements' Equal
CallSliceEqualSelf ==
    /\ pc = "ready"
    /\ Return([op |-> "SliceEqualUnordered(x, x)", err |-> "",
               result |-> SliceEqualUnordered(a, a, TagEqualOn(a))])
    /\ UNCHANGED <<a, b, eq, t, o, ut, data, doc, c, ac, pre>>

NextTagRelation ==
    \/ CallTagEqualPairs
    \/ CallSliceEqualSelf

SpecTagRelation == InitTagRelation /\ [][NextTagRelation]_vars

----------------------------------------------------------------------------
(* Change.Equal of package tags and Summary.Equal of package data.         *)
(* Both have a pointer receiver and a pointer argument and read the fields  *)
(* of both without a nil test; reading a field through a nil pointer        *)
(* panics.                                                                  *)

\* cmp.SliceEqEqUnordered: the scan of SliceEqualUnordered with == as the test
SliceEqEqUnordered(xs, ys) ==
    SliceEqualUnordered(xs, ys, {<<xs[i], xs[i]>> : i \in DOMAIN xs})

\* UserTag.Equal as the relation it is on the elements of xs and ys
UserTagEqualOn(xs, ys) ==
    {p \in {xs[i] : i \in DOMAIN xs} \X {ys[i] : i \in DOMAIN ys} :
        UserTag_Equal(p[1], p[2])}

\* a *Change is nil or points to a Change
NilChange == [nil |-> TRUE, AddTags |-> <<>>, RemoveTags |-> <<>>, RemoveKey |-> <<>>]

\* a plausible slip: RemoveKey is compared position by position
Change_EqualKeysInOrder(ch, other) ==
    IF ch.nil \/ other.nil
    THEN [panic |-> TRUE, result |-> FALSE]
    ELSE [panic |-> FALSE,
          result |->
              /\ SliceEqualUnordered(ch.AddTags, other.AddTags,
                                     UserTagEqualOn(ch.AddTags, other.AddTags))
              /\ SliceEqualUnordered(ch.RemoveTags, other.RemoveTags,
                                     UserTagEqualOn(ch.RemoveTags, other.RemoveTags))
              /\ ch.RemoveKey = other.RemoveKey]

\* Change.Equal, on the pointers ch and other
Change_Equal(ch, other) ==
    IF ch.nil \/ other.nil
    THEN [panic |-> TRUE, result |-> FALSE]
    ELSE [panic |-> FALSE,
          result |->
              /\ SliceEqualUnordered(ch.AddTags, other.AddTags,
                                     UserTagEqualOn(ch.AddTags, other.AddTags))
              /\ SliceEqualUnordered(ch.RemoveTags, other.RemoveTags,
                                     UserTagEqualOn(ch.RemoveTags, other.RemoveTags))
              /\ SliceEqEqUnordered(ch.RemoveKey, other.RemoveKey)]

\* a *data.Summary is nil or points to a Summary
NilSummary == [nil |-> TRUE, KnitId |-> NoString, Tags |-> <<>>]

\* data.Summary.Equal, on the pointers s and other
data_Summary_Equal(s, other) ==
    IF s.nil \/ other.nil
    THEN [panic |-> TRUE, result |-> FALSE]
    ELSE [panic |-> FALSE,
          result |->
              /\ s.KnitId = other.KnitId
              /\ SliceEqualUnordered(s.Tags, other.Tags, TagEqualOn(s.Tags \o other.Tags))]

----------------------------------------------------------------------------
(* SpecChangeEqual: c.Equal(o) on two *Change and t.Equal(ut) on two        *)
(* *data.Summary, nil included.  The add lists are all short lists of a     *)
(* user tag and two timestamp tags that name one instant in two zones.      *)

ChangeTags ==
    {[Key |-> <<"k">>, Value |-> <<"v">>],
     [Key |-> KeyKnitTimestamp, Value |-> TimeUTC],
     [Key |-> KeyKnitTimestamp, Value |-> TimeJST]}
AddLists == SeqsUpTo(ChangeTags, MaxElems)
RemoveLists ==
    {<<>>, <<[Key |-> <<"k">>, Value |-> <<"v">>]>>, <<[Key |-> <<"k">>, Value |-> <<"w">>]>>}
KeyLists == {<<<<"k">>>>, <<<<"k">>, <<"j">>>>, <<<<"j">>, <<"k">>>>, <<<<"k">>, <<"k">>>>}
Changes ==
    [nil : {FALSE}, AddTags : AddLists, RemoveTags : {<<>>}, RemoveKey : {<<>>}]
        \cup [nil : {FALSE}, AddTags : {<<>>}, RemoveTags : RemoveLists, RemoveKey : KeyLists]
Summaries ==
    {NilSummary} \cup [nil : {FALSE}, KnitId : {<<"x">>, <<"y">>}, Tags : AddLists]

InitChangeEqual ==
    /\ \/ /\ c \in {NilChange} \cup Changes
          /\ o \in {NilChange} \cup Changes
          /\ t = NilSummary /\ ut = NilSummary
       \/ /\ c = NilChange /\ o = NilChange
          /\ t \in Summaries
          /\ ut \in Summaries
    /\ data = NoData /\ doc = NoDoc /\ ac = ZeroAnnotationChange
    /\ CmpIdle
    /\ pre = Targets
    /\ pc = "ready"
    /\ ret = NoRet

CallChangeEqual ==
    /\ pc = "ready"
    /\ LET r == Change_Equal(c, o)
       IN  Return([op |-> "Change.Equal",
                   err |-> IF r.panic THEN ErrNilDereference ELSE "",
                   result |-> r.result])
    /\ UNCHANGED <<a, b, eq, t, o, ut, data, doc, c, ac, pre>>

CallDataSummaryEqual ==
    /\ pc = "ready"
    /\ LET r == data_Summary_Equal(t, ut)
       IN  Return([op |-> "data.Summary.Equal",
                   err |-> IF r.panic THEN ErrNilDereference ELSE "",
                   result |-> r.result])
    /\ UNCHANGED <<a, b, eq, t, o, ut, data, doc, c, ac, pre>>

NextChangeEqual ==
    \/ CallChangeEqual
    \/ CallDataSummaryEqual

SpecChangeEqual == InitChangeEqual /\ [][NextChangeEqual]_vars

----------------------------------------------------------------------------
(* package runs: Summary, Exit, Detail, Assignment and LogSummary, with the *)
(* parts of package plans they are built from.  A Detail embeds a Summary,  *)
(* so the fields of the Summary are fields of the Detail.  UpdatedAt is an  *)
(* rfctime.RFC3339, held as the instant it denotes.                        *)

\* cmp.SliceEqEq: the same elements at the same positions
SliceEqEq(xs, ys) == xs = ys

\* plans.Mountpoint.Equal
Mountpoint_Equal(m, other) ==
    /\ m.Path = other.Path
    /\ SliceEqualUnordered(m.Tags, other.Tags, TagEqualOn(m.Tags \o other.Tags))

\* plans.LogPoint.Equal
LogPoint_Equal(lp, other) ==
    SliceEqualUnordered(lp.Tags, other.Tags, TagEqualOn(lp.Tags \o other.Tags))

\* plans.Summary.Equal
plans_Summary_Equal(s, other) ==
    /\ s.PlanId = other.PlanId
    /\ Image_Equal(s.Image, other.Image).result
    /\ SliceEqEq(s.Entrypoint, other.Entrypoint)
    /\ SliceEqEq(s.Args, other.Args)
    /\ s.Name = other.Name
    /\ Annotations_Equal(s.Annotations, other.Annotations)

\* a *Exit is nil or points to an Exit
NilExit == [nil |-> TRUE, Code |-> 0, Message |-> NoString]

\* runs.Exit.Equal
Exit_Equal(e, other) == e.Code = other.Code /\ e.Message = other.Message

\* runs.Summary.Equal
runs_Summary_Equal(s, other) ==
    LET exitEq == \/ s.Exit.nil /\ other.Exit.nil
                  \/ ~s.Exit.nil /\ ~other.Exit.nil /\ Exit_Equal(s.Exit, other.Exit)
    IN  /\ s.RunId = other.RunId
        /\ exitEq
        /\ plans_Summary_Equal(s.Plan, other.Plan)
        /\ s.Status = other.Status
        /\ Equiv(s.UpdatedAt, other.UpdatedAt)

\* runs.Assignment.Equal
Assignment_Equal(x, other) ==
    Mountpoint_Equal(x.Mountpoint, other.Mountpoint) /\ x.KnitId = other.KnitId

\* Assignment.Equal as the relation it is on the elements of xs and ys
AssignmentEqualOn(xs, ys) ==
    {p \in {xs[i] : i \in DOMAIN xs} \X {ys[i] : i \in DOMAIN ys} :
        Assignment_Equal(p[1], p[2])}

\* a *LogSummary is nil or points to a LogSummary
NilLogSummary == [nil |-> TRUE, LogPoint |-> [Tags |-> <<>>], KnitId |-> NoString]

\* runs.LogSummary.Equal
LogSummary_Equal(l, other) ==
    LogPoint_Equal(l.LogPoint, other.LogPoint) /\ l.KnitId = other.KnitId

\* runs.Detail.Equal
runs_Detail_Equal(r, other) ==
    LET logEq == \/ r.Log.nil /\ other.Log.nil
                 \/ ~r.Log.nil /\ ~other.Log.nil /\ LogSummary_Equal(r.Log, other.Log)
    IN  /\ r.RunId = other.RunId
        /\ plans_Summary_Equal(r.Plan, other.Plan)
        /\ r.Status = other.Status
        /\ Equiv(r.UpdatedAt, other.UpdatedAt)
        /\ SliceEqualUnordered(r.Inputs, other.Inputs,
                               AssignmentEqualOn(r.Inputs, other.Inputs))
        /\ SliceEqualUnordered(r.Outputs, other.Outputs,
                               AssignmentEqualOn(r.Outputs, other.Outputs))
        /\ logEq

----------------------------------------------------------------------------
(* SpecRun: t.Equal(o) on two runs.Detail, and t.Summary.Equal(o.Summary)   *)
(* on the Summaries they embed.  The argument o ranges over every Detail    *)
(* built from the values below, the receiver t over those of one Run with   *)
(* every Exit and every Log.                                                *)

RunTag == [Key |-> <<"k">>, Value |-> <<"v">>]
Exits ==
    {NilExit,
     [nil |-> FALSE, Code |-> 0, Message |-> NoString],
     [nil |-> FALSE, Code |-> 1, Message |-> <<"e">>]}
LogSummaries ==
    {NilLogSummary,
     [nil |-> FALSE, LogPoint |-> [Tags |-> <<RunTag>>], KnitId |-> <<"l">>],
     [nil |-> FALSE, LogPoint |-> [Tags |-> <<>>], KnitId |-> <<"l">>]}
PlanSummaries ==
    [PlanId : {<<"p">>, <<"q">>},
     Image : {NilImage, [nil |-> FALSE, Repository |-> <<"r">>, Tag |-> <<"1">>]},
     Entrypoint : {<<<<"s", "h">>>>}, Args : {<<>>}, Name : {NoString},
     Annotations : {<<>>}]
Assignments ==
    [Mountpoint : {[Path |-> <<"/", "i">>, Tags |-> <<RunTag>>]},
     KnitId : {<<"d">>, <<"e">>}]
Instants == {ParseRFC3339DateTime(TimeUTC), ParseRFC3339DateTime(TimeLater)}
Details ==
    [RunId : {<<"r">>, <<"s">>},
     Status : {<<"d", "o", "n", "e">>, <<"f", "a", "i", "l", "e", "d">>},
     UpdatedAt : Instants,
     Exit : Exits,
     Plan : PlanSummaries,
     Inputs : {xs \in SeqsUpTo(Assignments, 2) : Len(xs) = 2},
     Outputs : {<<>>, <<[Mountpoint |-> [Path |-> <<"/", "o">>, Tags |-> <<>>],
                         KnitId |-> <<"d">>]>>},
     Log : LogSummaries]
Receivers ==
    {d \in Details :
        /\ d.RunId = <<"r">> /\ d.Status = <<"d", "o", "n", "e">>
        /\ d.UpdatedAt = ParseRFC3339DateTime(TimeUTC)
        /\ d.Plan.PlanId = <<"p">> /\ d.Plan.Image = NilImage
        /\ d.Inputs[1].KnitId = <<"d">> /\ d.Inputs[2].KnitId = <<"e">>
        /\ d.Outputs = <<>>}

InitRun ==
    /\ t \in Receivers
    /\ o \in Details
    /\ ut = ZeroTag /\ data = NoData
    /\ CmpIdle /\ ChangeIdle
    /\ pre = Targets
    /\ pc = "ready"
    /\ ret = NoRet

\* t.Equal(o), and t.Summary.Equal(o.Summary) on the same two values
CallRunDetailEqual ==
    /\ pc = "ready"
    /\ Return([op |-> "runs.Detail.Equal", err |-> "",
               result |-> runs_Detail_Equal(t, o),
               summary |-> runs_Summary_Equal(t, o)])
    /\ UNCHANGED <<a, b, eq, t, o, ut, data, doc, c, ac, pre>>

NextRun == CallRunDetailEqual

SpecRun == InitRun /\ [][NextRun]_vars

----------------------------------------------------------------------------
(* SpecAnnotationsPair: Annotations.Equal on two collections and            *)
(* Annotations.MarshalJSON of each, over short collections whose keys and   *)
(* values may hold a '='.                                                   *)

PairAnnotations ==
    [Key : {<<"a">>, <<"a", "=">>, <<"b">>}, Value : {<<"1">>, <<"=", "1">>}]

InitAnnotationsPair ==
    /\ a \in SeqsUpTo(PairAnnotations, MaxElems)
    /\ b \in SeqsUpTo(PairAnnotations, MaxElems)
    /\ eq = {}
    /\ TagIdle /\ ChangeIdle
    /\ pre = Targets
    /\ pc = "ready"
    /\ ret = NoRet

\* a.Equal(b); json.Marshal(a); json.Marshal(b)
CallEqualAndMarshalBoth ==
    /\ pc = "ready"
    /\ a' = Annotations_MarshalJSON(a).ans
    /\ b' = Annotations_MarshalJSON(b).ans
    /\ Return([op |-> "Annotations.Equal;Annotations.MarshalJSON",
               err |-> Annotations_MarshalJSON(a).err,
               result |-> Annotations_Equal(a, b),
               out |-> Annotations_MarshalJSON(a).out,
               other |-> Annotations_MarshalJSON(b).out])
    /\ UNCHANGED <<eq, t, o, ut, data, doc, c, ac, pre>>

NextAnnotationsPair == CallEqualAndMarshalBoth

SpecAnnotationsPair == InitAnnotationsPair /\ [][NextAnnotationsPair]_vars

----------------------------------------------------------------------------
(* cmp.SliceEqualUnordered statement by statement, called by two goroutines *)
(* with the same two slices.  A slice is a view of an array: b holds the    *)
(* array behind the callers' slice b, data[p] the array that goroutine p    *)
(* allocates, and the local slice of p is the first len elements of the     *)
(* array it names.  pc[p] is the statement p is at, ret[p] its locals: k,   *)
(* the number of elements of a matched so far, the local slice w, and, once *)
(* it has returned, the result and the return statement taken.             *)

Procs == {"p1", "p2"}

\* the array a slice is a view of
Array(id) == IF id = "b" THEN b ELSE data[id]

\* the elements of the local slice of p
Working(p) == SubSeq(Array(ret[p].w.arr), 1, ret[p].w.len)

\* an assignment to the elements of an array
Store(id, mem) ==
    IF id = "b"
    THEN b' = mem /\ data' = data
    ELSE b' = b /\ data' = [data EXCEPT ![id] = mem]

\* a plausible slip: no copy is made and the local slice is a view of the callers' array
WorkingArrayShared(p) == "b"

\* append([]T(nil), b...) allocates: the local slice of p is a view of an array of its own
WorkingArray(p) == p

\* a plausible slip: the matched element stays in the local slice
KeepInPlace(mem, len, i) == [mem |-> mem, len |-> len]

\* append(b[:i], b[i+1:]...): the capacity suffices, so the elements behind the
\* i-th move down by one inside the same array, and the slice is one shorter
AppendInPlace(mem, len, i) ==
    [mem |-> [j \in 1..Len(mem) |-> IF j >= i /\ j < len THEN mem[j + 1] ELSE mem[j]],
     len |-> len - 1]

NoLocals == [op |-> "SliceEqualUnordered", err |-> "", result |-> FALSE,
             exit |-> "none", k |-> 0, w |-> [arr |-> "b", len |-> 0]]

InitScan ==
    /\ a \in SeqsUpTo(Elem, MaxElems)
    /\ b \in SeqsUpTo(Elem, MaxElems)
    /\ eq \in SUBSET (Elem \X Elem)
    /\ o = b
    /\ data = [p \in Procs |-> <<>>]
    /\ t = ZeroTag /\ ut = ZeroTag
    /\ ChangeIdle
    /\ pre = Targets
    /\ pc = [p \in Procs |-> "ready"]
    /\ ret = [p \in Procs |-> NoLocals]

\* if len(a) != len(b) { return false }
CheckLen(p) ==
    /\ pc[p] = "ready"
    /\ IF Len(a) # Len(b)
       THEN /\ pc' = [pc EXCEPT ![p] = "done"]
            /\ ret' = [ret EXCEPT ![p].exit = "length"]
       ELSE /\ pc' = [pc EXCEPT ![p] = "copy"]
            /\ ret' = ret
    /\ UNCHANGED <<a, b, eq, t, o, ut, data, doc, c, ac, pre>>

\* b = append([]T(nil), b...)
CopyB(p) ==
    /\ pc[p] = "copy"
    /\ Store(WorkingArray(p), b)
    /\ ret' = [ret EXCEPT ![p].w = [arr |-> WorkingArray(p), len |-> Len(b)]]
    /\ pc' = [pc EXCEPT ![p] = "loop"]
    /\ UNCHANGED <<a, eq, t, o, ut, doc, c, ac, pre>>

\* one round of the loop A: the next x of a against the local slice
MatchNext(p) ==
    /\ pc[p] = "loop"
    /\ ret[p].k < Len(a)
    /\ IF FirstMatch(a[ret[p].k + 1], Working(p), eq) = 0
       THEN /\ pc' = [pc EXCEPT ![p] = "done"]
            /\ ret' = [ret EXCEPT ![p].exit = "no match"]
            /\ UNCHANGED <<b, data>>
       ELSE /\ Store(ret[p].w.arr,
                     AppendInPlace(Array(ret[p].w.arr), ret[p].w.len,
                                   FirstMatch(a[ret[p].k + 1], Working(p), eq)).mem)
            /\ ret' = [ret EXCEPT
                          ![p].k = @ + 1,
                          ![p].w.len =
                              AppendInPlace(Array(ret[p].w.arr), ret[p].w.len,
                                  FirstMatch(a[ret[p].k + 1], Working(p), eq)).len]
            /\ pc' = pc
    /\ UNCHANGED <<a, eq, t, o, ut, doc, c, ac, pre>>

\* return len(b) == 0
ReturnLenZero(p) ==
    /\ pc[p] = "loop"
    /\ ret[p].k = Len(a)
    /\ pc' = [pc EXCEPT ![p] = "done"]
    /\ ret' = [ret EXCEPT ![p].exit = "end", ![p].result = (ret[p].w.len = 0)]
    /\ UNCHANGED <<a, b, eq, t, o, ut, data, doc, c, ac, pre>>

Goroutine(p) ==
    \/ CheckLen(p)
    \/ CopyB(p)
    \/ MatchNext(p)
    \/ ReturnLenZero(p)

NextScan == \E p \in Procs : Goroutine(p)

\* SpecScan: every interleaving of the two calls
SpecScan == InitScan /\ [][NextScan]_vars

\* SpecScanFair: a goroutine that can take a step is scheduled in the end
SpecScanFair == SpecScan /\ \A p \in Procs : WF_vars(Goroutine(p))

----------------------------------------------------------------------------
(* Claims about the unordered equality engine.                             *)

Injections(n) == {f \in [1..n -> 1..n] : \A i, j \in 1..n : f[i] = f[j] => i = j}

\* a bijection from the positions of xs to those of ys pairing only Equal elements
ExistsBijection(xs, ys, equal) ==
    /\ Len(xs) = Len(ys)
    /\ \E f \in Injections(Len(xs)) : \A i \in 1..Len(xs) : <<xs[i], ys[f[i]]>> \in equal

Symmetric(equal) == \A p \in equal : <<p[2], p[1]>> \in equal
Transitive(equal) ==
    \A p, q \in equal : p[2] = q[1] => <<p[1], q[2]>> \in equal

CmpDone == pc = "done" /\ ret.op = "SliceEqualUnordered"

\* C1 as stated: for ANY predicate eq, SliceEqualUnordered(a, b) is true iff a
\* bijection between the positions of a and b pairs only eq-related elements.
C1_AnyPredicate ==
    CmpDone => (ret.result <=> ExistsBijection(a, b, eq))

\* C1 amended: a true result always comes with such a bijection, and when eq is
\* symmetric and transitive (every equivalence relation is) the result is true
\* iff such a bijection exists.
C1_Bijection ==
    CmpDone =>
        /\ ret.result => ExistsBijection(a, b, eq)
        /\ (Symmetric(eq) /\ Transitive(eq)) =>
               (ret.result <=> ExistsBijection(a, b, eq))

\* C1 witness: two different orderings of the same elements compare equal
C1_Witness ==
    /\ CmpDone
    /\ Symmetric(eq) /\ Transitive(eq)
    /\ Len(a) = MaxLen
    /\ a # b
    /\ eq # Elem \X Elem
    /\ ret.result

----------------------------------------------------------------------------
(* Claims about Tag and UserTag.                                           *)

HasColon(s) == \E i \in 1..Len(s) : s[i] = ":"

\* r is x without its leading and trailing white space
IsTrimOf(r, x) ==
    \E lo \in 1..(Len(x) + 1) : \E hi \in (lo - 1)..Len(x) :
        /\ r = SubSeq(x, lo, hi)
        /\ \A j \in 1..(lo - 1) : x[j] \in WhiteSpace
        /\ \A j \in (hi + 1)..Len(x) : x[j] \in WhiteSpace
        /\ r # <<>> => (r[1] \notin WhiteSpace /\ r[Len(r)] \notin WhiteSpace)

\* k and v are the trimmed texts before and after the first sep of s
SplitsAtFirst(s, sep, k, v) ==
    \E i \in 1..Len(s) :
        /\ s[i] = sep
        /\ \A j \in 1..(i - 1) : s[j] # sep
        /\ IsTrimOf(k, SubSeq(s, 1, i - 1))
        /\ IsTrimOf(v, SubSeq(s, i + 1, Len(s)))

SplitsAtFirstColon(s, k, v) == SplitsAtFirst(s, ":", k, v)

\* the key starts with "knit#"
IsReservedKey(k) ==
    /\ Len(k) >= 5
    /\ k[1] = "k" /\ k[2] = "n" /\ k[3] = "i" /\ k[4] = "t" /\ k[5] = "#"

IsTimestampKey(k) == k = <<"k", "n", "i", "t", "#", "t", "i", "m", "e", "s", "t", "a", "m", "p">>
IsTransientKey(k) == k = <<"k", "n", "i", "t", "#", "t", "r", "a", "n", "s", "i", "e", "n", "t">>

TransientLiterals ==
    {<<"p", "r", "o", "c", "e", "s", "s", "i", "n", "g">>,
     <<"f", "a", "i", "l", "e", "d">>,
     <<"p", "u", "r", "g", "e", "d">>}

\* the value constraint of the two validated system keys
MeetsSystemKeyConstraint(k, v) ==
    /\ IsTimestampKey(k) => ParseRFC3339DateTime(v).ok
    /\ IsTransientKey(k) => v \in TransientLiterals

EqualDone == pc = "done" /\ ret.op = "Tag.Equal"
ParseDone == pc = "done" /\ ret.op = "Tag.Parse"
UserParseDone == pc = "done" /\ ret.op = "UserTag.Parse"
UserUnmarshalDone == pc = "done" /\ ret.op = "UserTag.UnmarshalJSON"
FormatDone == pc = "done" /\ ret.op = "Tag.String;Tag.Parse"
AsUserTagDone == pc = "done" /\ ret.op = "Tag.AsUserTag"

\* C2: Tag.Equal(a, b) is true iff the keys are identical and either the key is
\* not "knit#timestamp" and the values are the same string, or the key is
\* "knit#timestamp", both values parse as RFC3339 datetimes and denote the same
\* instant; a value that does not parse makes the result false, with no error.
C2_TagEqual ==
    EqualDone =>
        /\ ret.err = ""
        /\ ret.result <=>
              /\ t.Key = o.Key
              /\ \/ ~IsTimestampKey(t.Key) /\ t.Value = o.Value
                 \/ /\ IsTimestampKey(t.Key)
                    /\ ParseRFC3339DateTime(t.Value).ok
                    /\ ParseRFC3339DateTime(o.Value).ok
                    /\ ParseRFC3339DateTime(t.Value).sec = ParseRFC3339DateTime(o.Value).sec
                    /\ ParseRFC3339DateTime(t.Value).frac = ParseRFC3339DateTime(o.Value).frac

\* C2 witness: midnight UTC and 09:00 at +09:00 under the timestamp key are equal
C2_Witness ==
    /\ EqualDone
    /\ IsTimestampKey(t.Key) /\ IsTimestampKey(o.Key)
    /\ t.Value = TimeUTC /\ o.Value = TimeJST
    /\ ret.result

\* C3: Tag.Parse(s) fails with the parse error iff s holds no ':'; with a ':' it
\* can only fail on a system-key constraint, and on success the key is the
\* trimmed text before the FIRST ':' and the value the trimmed text after it.
C3_ParseSplit ==
    ParseDone =>
        /\ ret.err = ErrNoKey <=> ~HasColon(data.str)
        /\ HasColon(data.str) => ret.err \in {"", ErrNotTimestamp, ErrTransientValue}
        /\ ret.err = "" => SplitsAtFirstColon(data.str, t.Key, t.Value)

\* C3 witness: a string with two colons and padded parts is parsed
C3_Witness ==
    /\ ParseDone
    /\ ret.err = ""
    /\ Cardinality({i \in 1..Len(data.str) : data.str[i] = ":"}) >= 2
    /\ HasColon(t.Value)
    /\ data.str[1] \in WhiteSpace
    /\ t.Key # NoString

\* C4: Tag.Parse validates the trimmed value of exactly two system keys: with key
\* "knit#timestamp" it succeeds iff the value parses as an RFC3339 datetime, with
\* key "knit#transient" iff the value is processing, failed or purged; every
\* other key, "knit#id" included, is accepted with any value.
C4_SystemKeyConstraint ==
    (ParseDone /\ HasColon(data.str)) =>
        LET k == TrimSpace(Cut(data.str, ":").before)
            v == TrimSpace(Cut(data.str, ":").after)
        IN  /\ SplitsAtFirstColon(data.str, k, v)
            /\ ret.err = "" <=> MeetsSystemKeyConstraint(k, v)
            /\ ret.err = ErrNotTimestamp <=>
                   (IsTimestampKey(k) /\ ~ParseRFC3339DateTime(v).ok)
            /\ ret.err = ErrTransientValue <=>
                   (IsTransientKey(k) /\ v \notin TransientLiterals)
            /\ (~IsTimestampKey(k) /\ ~IsTransientKey(k)) => ret.err = ""

\* C4 witness: "knit#id" is accepted with a value that is no datetime and no
\* transient literal
C4_Witness ==
    /\ ParseDone
    /\ ret.err = ""
    /\ t.Key = KeyKnitId
    /\ t.Value = <<"k">>

\* C5 as stated: for EVERY Tag t, Tag.Parse(t.String()) succeeds and yields t.
C5_EveryTag ==
    FormatDone => (ret.err = "" /\ o = t)

\* the Tags the compact form can carry
IsCanonical(tag) ==
    /\ ~HasColon(tag.Key)
    /\ IsTrimOf(tag.Key, tag.Key)
    /\ IsTrimOf(tag.Value, tag.Value)
    /\ MeetsSystemKeyConstraint(tag.Key, tag.Value)

\* C5 amended: Tag.Parse(t.String()) succeeds and yields exactly t iff t's key
\* holds no ':', its key and value carry no surrounding white space, and its
\* value meets the constraint of its system key (as every parsed Tag does).
C5_RoundTrip ==
    FormatDone => ((ret.err = "" /\ o = t) <=> IsCanonical(t))

\* C5 witness: a timestamp Tag, whose value holds colons, survives the round trip
C5_Witness ==
    /\ FormatDone
    /\ ret.err = ""
    /\ o = t
    /\ HasColon(t.Value)
    /\ IsTimestampKey(t.Key)

\* C6: UserTag.Parse and UserTag.UnmarshalJSON succeed iff the Tag operation on
\* the same input succeeds with a key that does not start with "knit#"; on
\* success the UserTag holds the Tag's key and value; a reserved key fails with
\* the "reserved for system tags" error; a failure leaves the UserTag alone.
C6_UserTagDecoders ==
    /\ UserParseDone =>
          LET r == Tag_Parse(pre.t, data.str)
          IN  /\ ret.err = "" <=> (r.err = "" /\ ~IsReservedKey(r.tag.Key))
              /\ ret.err = "" => ut = r.tag
              /\ (r.err = "" /\ IsReservedKey(r.tag.Key)) => ret.err = ErrReserved
              /\ ret.err # "" => ut = pre.ut
    /\ UserUnmarshalDone =>
          LET r == Tag_UnmarshalJSON(pre.t, data)
          IN  /\ ret.err = "" <=> (r.err = "" /\ ~IsReservedKey(r.tag.Key))
              /\ ret.err = "" => ut = r.tag
              /\ (r.err = "" /\ IsReservedKey(r.tag.Key)) => ret.err = ErrReserved
              /\ ret.err # "" => ut = pre.ut

\* C6 witness: an object with a reserved key is refused by UserTag.UnmarshalJSON
\* and the target keeps its earlier value
C6_Witness ==
    /\ UserUnmarshalDone
    /\ data.kind = "object"
    /\ ret.err = ErrReserved
    /\ ut = pre.ut
    /\ ut # ZeroTag

\* C7: Tag.AsUserTag(ut) returns true iff the key does not start with "knit#";
\* when true *ut holds the Tag's key and value, when false *ut is unchanged;
\* it raises no error.
C7_AsUserTag ==
    AsUserTagDone =>
        /\ ret.result <=> ~IsReservedKey(t.Key)
        /\ ret.result => ut = t
        /\ ~ret.result => ut = pre.ut
        /\ ret.err = ""

\* C7 witness: a system Tag is refused and the earlier *ut survives
C7_Witness ==
    /\ AsUserTagDone
    /\ ~ret.result
    /\ t.Key = KeyKnitId
    /\ ut = pre.ut
    /\ ut # ZeroTag
    /\ ut # t

----------------------------------------------------------------------------
(* Claims about the change sets.                                           *)

ChangeDone == pc = "done" /\ ret.op = "Change.UnmarshalJSON"
PlanDone == pc = "done" /\ ret.op = "AnnotationChange"

\* the string reads, after optional white space, "knit#" and holds the separator
\* sep: its trimmed key starts with the reserved prefix
StartsReserved(s, sep) ==
    /\ \E i \in 1..Len(s) : s[i] = sep
    /\ \E p \in 1..Len(s) :
          /\ \A j \in 1..(p - 1) : s[j] \in WhiteSpace
          /\ p + 4 <= Len(s)
          /\ IsReservedKey(SubSeq(s, p, p + 4))

\* an element of add or remove of a Change whose key starts with "knit#"
TagElementReserved(e) ==
    \/ e.kind = "string" /\ StartsReserved(e.str, ":")
    \/ e.kind = "object" /\ e.key.st = "string" /\ IsReservedKey(e.key.str)

\* an element of remove_key that starts with "knit#"
KeyElementReserved(e) == e.kind = "string" /\ IsReservedKey(e.str)

AnyReservedTagKey(d) ==
    \/ \E i \in 1..Len(d.add) : TagElementReserved(d.add[i])
    \/ \E i \in 1..Len(d.remove) : TagElementReserved(d.remove[i])
    \/ \E i \in 1..Len(d.remove_key) : KeyElementReserved(d.remove_key[i])

\* C8: Change.UnmarshalJSON rejects the whole value whenever an element of add,
\* an element of remove or a string of remove_key has a key starting with
\* "knit#"; a rejected call leaves the add, remove and removeKey lists of the
\* target as they were, and an accepted one stores no reserved key.
C8_RejectsReserved ==
    ChangeDone =>
        /\ AnyReservedTagKey(doc) => ret.err # ""
        /\ ret.err # "" => c = pre.c
        /\ ret.err = "" =>
              /\ Len(c.AddTags) = Len(doc.add)
              /\ Len(c.RemoveTags) = Len(doc.remove)
              /\ Len(c.RemoveKey) = Len(doc.remove_key)
              /\ \A i \in 1..Len(c.AddTags) : ~IsReservedKey(c.AddTags[i].Key)
              /\ \A i \in 1..Len(c.RemoveTags) : ~IsReservedKey(c.RemoveTags[i].Key)
              /\ \A i \in 1..Len(c.RemoveKey) : ~IsReservedKey(c.RemoveKey[i])

\* C8 witness: a reserved string in remove_key, after well-formed user tags, is
\* refused and the target keeps its earlier lists
C8_Witness ==
    /\ ChangeDone
    /\ ret.err = ErrNotRemovable
    /\ Len(doc.add) > 0
    /\ c = pre.c
    /\ c # ZeroChange

\* the elements of the document in the order the decoder meets them
RECURSIVE Flat(_, _)
Flat(d, k) ==
    IF k > Len(d.order)
    THEN <<>>
    ELSE LET elems == IF d.order[k] = "add" THEN d.add
                      ELSE IF d.order[k] = "remove" THEN d.remove
                      ELSE d.remove_key
         IN  [i \in 1..Len(elems) |-> [member |-> d.order[k], elem |-> elems[i]]]
                 \o Flat(d, k + 1)

\* the element does not parse: as a Tag in add and remove, as a string in remove_key
MalformedAt(x) ==
    IF x.member = "remove_key"
    THEN x.elem.kind # "string"
    ELSE Tag_UnmarshalJSON(ZeroTag, x.elem).err # ""

\* the element parses and its key is reserved
ReservedAt(x) ==
    IF x.member = "remove_key"
    THEN KeyElementReserved(x.elem)
    ELSE /\ Tag_UnmarshalJSON(ZeroTag, x.elem).err = ""
         /\ IsReservedKey(Tag_UnmarshalJSON(ZeroTag, x.elem).tag.Key)

AnyMalformed(d) == \E i \in 1..Len(Flat(d, 1)) : MalformedAt(Flat(d, 1)[i])

PolicyErrors == {ErrReserved, ErrNotRemovable}

\* C9 as stated: whenever the document holds a malformed element anywhere, the
\* failure reported is a parse error, never a reserved-key policy error,
\* whatever the order of the reserved key and the malformed element.
C9_ParseErrorFirst ==
    ChangeDone =>
        (AnyMalformed(doc) => (ret.err # "" /\ ret.err \notin PolicyErrors))

\* C9 amended: only the reserved-prefix check of remove_key runs after all three
\* lists have been parsed.  The prefix of an add or remove element is checked by
\* that element's own decoder, and decoding stops at the first add or remove
\* element, in document order, that is malformed or reserved: a document with a
\* malformed element is always rejected, and the failure reported is the
\* reserved-key policy error iff a reserved add or remove element precedes every
\* malformed add or remove element; otherwise it is a parse error.
C9_DocumentOrder ==
    ChangeDone =>
        LET f == Flat(doc, 1)
            tagAt(i) == f[i].member # "remove_key"
        IN  /\ ret.err = ErrNotRemovable <=>
                  /\ \A i \in 1..Len(f) : ~MalformedAt(f[i])
                  /\ \A i \in 1..Len(f) : tagAt(i) => ~ReservedAt(f[i])
                  /\ \E i \in 1..Len(f) : ~tagAt(i) /\ ReservedAt(f[i])
            /\ AnyMalformed(doc) =>
                  /\ ret.err # ""
                  /\ ret.err # ErrNotRemovable
                  /\ ret.err = ErrReserved <=>
                        \E i \in 1..Len(f) :
                            /\ tagAt(i) /\ ReservedAt(f[i])
                            /\ \A j \in 1..Len(f) :
                                   (tagAt(j) /\ MalformedAt(f[j])) => i < j

\* C9 witness: a tag string without ':' followed by a reserved key is reported
\* as the parse error
C9_Witness ==
    /\ ChangeDone
    /\ Len(doc.add) = 2
    /\ MalformedAt([member |-> "add", elem |-> doc.add[1]])
    /\ ReservedAt([member |-> "add", elem |-> doc.add[2]])
    /\ ret.err = ErrNoKey

\* an element of add or remove of an AnnotationChange whose key starts with "knit#"
AnnotationElementReserved(e) == e.kind = "string" /\ StartsReserved(e.str, "=")

AnyReservedAnnotationKey(d) ==
    \/ \E i \in 1..Len(d.add) : AnnotationElementReserved(d.add[i])
    \/ \E i \in 1..Len(d.remove) : AnnotationElementReserved(d.remove[i])
    \/ \E i \in 1..Len(d.remove_key) : KeyElementReserved(d.remove_key[i])

\* the element is a JSON string holding '='
AnnotationElementParses(e) ==
    e.kind = "string" /\ \E i \in 1..Len(e.str) : e.str[i] = "="

\* the decoded list holds, element by element, the trimmed key and value around
\* the first '=' of the document's strings
HoldsAnnotations(list, elems) ==
    /\ Len(list) = Len(elems)
    /\ \A i \in 1..Len(elems) : SplitsAtFirst(elems[i].str, "=", list[i].Key, list[i].Value)

----------------------------------------------------------------------------
(* Claims about the two input forms of a Tag.                              *)

UnmarshalDone == pc = "done" /\ ret.op = "Tag.UnmarshalJSON"
UnmarshalYAMLDone == pc = "done" /\ ret.op = "Tag.UnmarshalYAML"
TagDecoded == UnmarshalDone \/ UnmarshalYAMLDone

\* C11: no parse or decode operation changes its target when it fails: if Tag.Parse,
\* Tag.UnmarshalJSON, UserTag.Parse or UserTag.UnmarshalJSON returns an error,
\* every field of the target has the value it had before the call.
C11_NoPartialMutation ==
    (pc = "done" /\ ret.err # "") => Targets = pre

\* the errors of the scalar-string attempt and of the structured-object attempt
ScalarErrors == {ErrNoKey, ErrNotTimestamp, ErrTransientValue}
FieldErrors ==
    {ErrKeyMissing, ErrKeyNull, ErrKeyInvalid, ErrValueMissing, ErrValueNull, ErrValueInvalid}
StructuredErrors == FieldErrors \cup {ErrFailedToParseTag, ErrTagIsNil}

\* C12: decoding a Tag from the object form succeeds only if "key" and "value" are
\* both present, non-null and strings; a missing, a null and a wrongly typed field
\* give six different errors, a defective key is reported before a defective
\* value, and the Tag receives the two strings as they are, nothing substituted.
C12_ObjectForm ==
    (TagDecoded /\ data.kind = "object") =>
        /\ ret.err = "" <=> (data.key.st = "string" /\ data.value.st = "string")
        /\ data.key.st = "missing" => ret.err = ErrKeyMissing
        /\ data.key.st = "null" => ret.err = ErrKeyNull
        /\ data.key.st = "invalid" => ret.err = ErrKeyInvalid
        /\ data.key.st = "string" =>
              /\ data.value.st = "missing" => ret.err = ErrValueMissing
              /\ data.value.st = "null" => ret.err = ErrValueNull
              /\ data.value.st = "invalid" => ret.err = ErrValueInvalid
        /\ ret.err = "" => (t.Key = data.key.str /\ t.Value = data.value.str)
        /\ Cardinality(FieldErrors \cup {""}) = 7

\* C12 witness: a null key and a wrongly typed value are reported as the null key
C12_Witness ==
    /\ UnmarshalDone
    /\ data.kind = "object"
    /\ data.key.st = "null" /\ data.value.st = "invalid"
    /\ ret.err = ErrKeyNull

\* the input is one on which decoding into a string fails: a mapping or a
\* sequence, and for JSON a number too
ScalarDecodeFails ==
    \/ data.kind \in {"object", "array"}
    \/ UnmarshalDone /\ data.kind = "number"

\* C13: Tag.UnmarshalJSON and Tag.UnmarshalYAML try the scalar-string form first:
\* on a string the outcome of Tag.Parse is final, success or error, with no
\* fallback; the object form is tried only on an input that is no string; and
\* when both attempts fail the error is the one of the object attempt.
C13_TwoAttempts ==
    TagDecoded =>
        /\ data.kind = "string" =>
              LET k == TrimSpace(Cut(data.str, ":").before)
                  v == TrimSpace(Cut(data.str, ":").after)
              IN  /\ ret.err \in ScalarErrors \cup {""}
                  /\ ret.err = "" <=> (HasColon(data.str) /\ MeetsSystemKeyConstraint(k, v))
                  /\ ret.err = "" => SplitsAtFirstColon(data.str, t.Key, t.Value)
                  /\ ret.err # "" => t = pre.t
        /\ ret.err \in StructuredErrors => data.kind # "string"
        /\ (ScalarDecodeFails /\ ret.err # "") => ret.err \in StructuredErrors
        /\ ScalarErrors \cap StructuredErrors = {}

\* C13 witness: an object without a usable value fails both attempts and the
\* error is the object attempt's
C13_Witness ==
    /\ UnmarshalDone
    /\ data.kind = "object"
    /\ data.key.st = "string" /\ data.value.st = "null"
    /\ ret.err = ErrValueNull


----------------------------------------------------------------------------
(* Claims about the JSON that is emitted.                                  *)

TagMarshalDone == pc = "done" /\ ret.op = "json.Marshal(Tag)"
UserTagMarshalDone == pc = "done" /\ ret.op = "json.Marshal(UserTag)"

\* C14: the JSON emitted for a UserTag is the quoted compact string "key:value",
\* the same that Tag emits; the object form {"key":..,"value":..} is never
\* produced on output.
C14_UserTagEncoding ==
    /\ UserTagMarshalDone =>
          /\ ret.err = ""
          /\ data.kind = "string"
          /\ data.str = ut.Key \o <<":">> \o ut.Value
    /\ TagMarshalDone =>
          /\ ret.err = ""
          /\ data.kind = "string"
          /\ data.str = t.Key \o <<":">> \o t.Value

\* what Tag emits, which the code does produce: the compact string
C14_TagEncoding ==
    TagMarshalDone =>
        /\ ret.err = ""
        /\ data.kind = "string"
        /\ data.str = t.Key \o <<":">> \o t.Value


----------------------------------------------------------------------------
(* Claims about Annotations.                                               *)

AnnotationsMarshalDone == pc = "done" /\ ret.op = "Annotations.MarshalJSON"
RoundTripDone == pc = "done" /\ ret.op = "Annotations.MarshalJSON;json.Unmarshal"
AnnotationDecoded == pc = "done" /\ ret.op = "Annotation.UnmarshalJSON"

\* x comes before y in the order of bytes
LexLess(x, y) ==
    \E i \in 1..Len(y) :
        /\ i <= Len(x) + 1
        /\ \A j \in 1..(i - 1) : x[j] = y[j]
        /\ i = Len(x) + 1 \/ ByteOf(x[i]) < ByteOf(y[i])

\* x does not come after y in the order by key, then by value
KeyValueLeq(x, y) ==
    \/ LexLess(x.Key, y.Key)
    \/ x.Key = y.Key /\ (LexLess(x.Value, y.Value) \/ x.Value = y.Value)

\* C15: Annotations.MarshalJSON emits the "key=value" strings of the collection
\* sorted ascending by key and, for equal keys, by value; what is emitted is a
\* permutation of the input (same length, duplicates kept) and the receiver's
\* own order of elements is unchanged.
C15_SortedOutput ==
    AnnotationsMarshalDone =>
        /\ ret.err = ""
        /\ Len(ret.out) = Len(a)
        /\ \E f \in Injections(Len(a)) :
              /\ \A i \in 1..Len(a) :
                    /\ ret.out[i].kind = "string"
                    /\ ret.out[i].str = a[f[i]].Key \o <<"=">> \o a[f[i]].Value
              /\ \A i, j \in 1..Len(a) : i < j => KeyValueLeq(a[f[i]], a[f[j]])
        /\ a = pre.a

\* C15 witness: two elements under one key are emitted in the order of their
\* values, behind an element that came last in the receiver
C15_Witness ==
    /\ AnnotationsMarshalDone
    /\ Len(a) = 3
    /\ a[1].Key = <<"b">> /\ a[2].Key = <<"b">> /\ a[3].Key = <<"a">>
    /\ a[1].Value = <<"2">> /\ a[2].Value = <<"1">>
    /\ ret.out[1].str = <<"a", "=">> \o a[3].Value
    /\ ret.out[2].str = <<"b", "=", "1">>
    /\ ret.out[3].str = <<"b", "=", "2">>

\* C16 as stated: for every Annotations value x, unmarshalling the output of
\* x.MarshalJSON succeeds and yields a collection equal to x under unordered
\* equality.
C16_EveryAnnotations ==
    RoundTripDone => (ret.err = "" /\ ret.result)

\* the key holds no '=' and neither the key nor the value has white space
\* around it
IsCanonicalAnnotation(an) ==
    /\ \A i \in 1..Len(an.Key) : an.Key[i] # "="
    /\ an.Key # <<>> => (an.Key[1] \notin WhiteSpace /\ an.Key[Len(an.Key)] \notin WhiteSpace)
    /\ an.Value # <<>> =>
          (an.Value[1] \notin WhiteSpace /\ an.Value[Len(an.Value)] \notin WhiteSpace)

\* C16: unmarshalling the output of x.MarshalJSON always succeeds and yields as
\* many elements as x has; the result is equal to x under unordered equality iff
\* every element of x has a key without '=' and a key and a value without
\* leading or trailing white space.
C16_RoundTrip ==
    RoundTripDone =>
        /\ ret.err = ""
        /\ Len(b) = Len(a)
        /\ ret.result <=> \A i \in 1..Len(a) : IsCanonicalAnnotation(a[i])

\* C16 witness: three canonical elements out of order come back sorted and equal
C16_Witness ==
    /\ RoundTripDone
    /\ ret.result
    /\ Len(a) = 3
    /\ b # a
    /\ a[1] # a[2]

\* C17: Annotation decoding accepts the compact string form only: it fails iff the
\* input is no string or the string holds no '='; otherwise the key is the
\* trimmed text before the FIRST '=' and the value the trimmed text after it; a
\* key starting with "knit#" is accepted, and the object form is refused.
C17_StringFormOnly ==
    AnnotationDecoded =>
        /\ ret.err # "" <=>
              (data.kind # "string" \/ \A i \in 1..Len(data.str) : data.str[i] # "=")
        /\ ret.err = "" => SplitsAtFirst(data.str, "=", t.Key, t.Value)
        /\ data.kind = "object" => ret.err # ""
        /\ ret.err # "" => t = pre.t

\* C17 witness: "knit#id==" is accepted with key "knit#id" and value "="
C17_Witness ==
    /\ AnnotationDecoded
    /\ ret.err = ""
    /\ IsReservedKey(t.Key)
    /\ t.Value = <<"=">>


----------------------------------------------------------------------------
(* Claims about Image.Equal and the equality helpers of package cmp.       *)

ImageEqualDone == pc = "done" /\ ret.op = "Image.Equal"
MapEqualDone == pc = "done" /\ ret.op = "MapEqualWith"

\* C18: Image.Equal is nil-aware: two *Image are equal iff both are nil, or both
\* are present with the same Repository and the same Tag; it is false whenever
\* exactly one is nil, and it never fails on a nil receiver or argument.
C18_ImageEqual ==
    ImageEqualDone =>
        /\ ret.err = ""
        /\ ret.result <=>
              \/ t.nil /\ o.nil
              \/ ~t.nil /\ ~o.nil /\ t.Repository = o.Repository /\ t.Tag = o.Tag
        /\ (t.nil # o.nil) => ~ret.result

\* C18 witness: a nil receiver and a present argument are unequal, without failure
C18_Witness ==
    /\ ImageEqualDone
    /\ t.nil /\ ~o.nil
    /\ ~ret.result
    /\ ret.err = ""

\* C19: cmp.MapEqualWith(a, b, pred) is true iff a and b have exactly the same
\* keys and pred(a[k], b[k]) holds for every key k; pred is never applied for a
\* key that b lacks.
C19_MapEqual ==
    MapEqualDone =>
        /\ ret.result <=>
              /\ DOMAIN a = DOMAIN b
              /\ \A k \in DOMAIN a : <<a[k], b[k]>> \in eq
        /\ ret.applied \subseteq DOMAIN b

\* C19 witness: maps of the same size over different keys are unequal and pred
\* was called for no key
C19_Witness ==
    /\ MapEqualDone
    /\ Cardinality(DOMAIN a) = 1 /\ Cardinality(DOMAIN b) = 1
    /\ DOMAIN a # DOMAIN b
    /\ eq = Elem \X Elem
    /\ ~ret.result
    /\ ret.applied = {}

\* the slice s with its elements rearranged by f
Permuted(s, f) == [i \in 1..Len(s) |-> s[f[i]]]

\* C20: when Equal is an equivalence relation, SliceEqualUnordered(a, a) is true,
\* SliceEqualUnordered(a, b) = SliceEqualUnordered(b, a), and the result is the
\* same for every permutation of a and for every permutation of b.
C20_Equivalence ==
    CmpDone =>
        /\ SliceEqualUnordered(a, a, eq)
        /\ ret.result = SliceEqualUnordered(b, a, eq)
        /\ \A f \in Injections(Len(a)) :
              SliceEqualUnordered(Permuted(a, f), b, eq) = ret.result
        /\ \A f \in Injections(Len(b)) :
              SliceEqualUnordered(a, Permuted(b, f), eq) = ret.result

\* C20 witness: x and y are Equal and z is not; [x, z, y] and [z, y, y] are equal
C20_Witness ==
    /\ CmpDone
    /\ a = <<"x", "z", "y">>
    /\ b = <<"z", "y", "y">>
    /\ <<"x", "y">> \in eq /\ <<"x", "z">> \notin eq
    /\ ret.result

----------------------------------------------------------------------------
(* Claims about what the decoders of a Tag let through.                    *)

TagProduced ==
    /\ pc = "done"
    /\ ret.op \in {"Tag.Parse", "Tag.UnmarshalJSON", "Tag.UnmarshalYAML"}
    /\ ret.err = ""

\* C27: every Tag that Tag.Parse, Tag.UnmarshalJSON (string or object form) or
\* Tag.UnmarshalYAML produces without an error meets the system-key constraint:
\* under key "knit#timestamp" the value parses as an RFC3339 datetime, under key
\* "knit#transient" the value is processing, failed or purged.
C27_SystemKeyInvariant ==
    TagProduced => MeetsSystemKeyConstraint(t.Key, t.Value)

BothFormsDone ==
    pc = "done" /\ ret.op = "Tag.UnmarshalJSON(string);Tag.UnmarshalJSON(object)"

\* C25: the two input encodings of a Tag agree: for every key K and value V,
\* decoding the string "K:V" and decoding the object {"key": K, "value": V}
\* either both fail or both succeed with the same Tag.
C25_FormsAgree ==
    BothFormsDone =>
        \/ ret.string.err # "" /\ ret.object.err # ""
        \/ /\ ret.string.err = "" /\ ret.object.err = ""
           /\ ret.string.tag = ret.object.tag

----------------------------------------------------------------------------
(* Claims about Tag.Equal as a relation.                                   *)

TagPairsDone == pc = "done" /\ ret.op = "Tag.Equal (pairs)"
SliceSelfDone == pc = "done" /\ ret.op = "SliceEqualUnordered(x, x)"

\* a Tag under "knit#timestamp" whose value is no RFC3339 datetime
IsMalformedTimestamp(x) == IsTimestampKey(x.Key) /\ ~ParseRFC3339DateTime(x.Value).ok

SymmetricOn(e) == \A i, j \in DOMAIN e : e[i][j] => e[j][i]
TransitiveOn(e) == \A i, j, k \in DOMAIN e : (e[i][j] /\ e[j][k]) => e[i][k]

\* C26 as stated: Tag.Equal is reflexive, symmetric and transitive over all Tag
\* values, and SliceEqualUnordered(x, x) is true for every list x of Tags.
C26_Equivalence ==
    /\ TagPairsDone =>
          /\ \A i \in DOMAIN ret.equal : ret.equal[i][i]
          /\ SymmetricOn(ret.equal)
          /\ TransitiveOn(ret.equal)
    /\ SliceSelfDone => ret.result

\* C26 (amended): Tag.Equal is symmetric and transitive over all Tag values, and
\* a Tag equals itself iff it is not a "knit#timestamp" Tag whose value fails to
\* parse; SliceEqualUnordered(x, x) is true iff x holds no such Tag.
C26_PartialEquivalence ==
    /\ TagPairsDone =>
          /\ \A i \in DOMAIN ret.equal : ret.equal[i][i] <=> ~IsMalformedTimestamp(a[i])
          /\ SymmetricOn(ret.equal)
          /\ TransitiveOn(ret.equal)
    /\ SliceSelfDone =>
          (ret.result <=> \A i \in DOMAIN a : ~IsMalformedTimestamp(a[i]))

\* C26 witness: of three timestamp Tags the two naming one instant are equal and
\* the one with an unparsable value does not equal itself
C26_Witness ==
    /\ TagPairsDone
    /\ IsTimestampKey(t.Key) /\ IsTimestampKey(o.Key) /\ IsTimestampKey(ut.Key)
    /\ t.Value = TimeUTC /\ o.Value = TimeJST /\ ut.Value = NotADate
    /\ ret.equal[1][2] /\ ret.equal[2][1]
    /\ ~ret.equal[3][3]

----------------------------------------------------------------------------
(* Claims about Change.Equal and the Equal operations on pointers.         *)

ChangeEqualDone == pc = "done" /\ ret.op = "Change.Equal"
DataSummaryEqualDone == pc = "done" /\ ret.op = "data.Summary.Equal"

\* C22: equality never fails: every Equal operation returns true or false for
\* every pair of arguments, absent (nil) references included, without raising
\* an error or crashing.
C22_EqualNeverFails ==
    (ChangeEqualDone \/ DataSummaryEqualDone) => ret.err = ""

\* how many times x occurs in xs
Count(x, xs) == Cardinality({i \in DOMAIN xs : xs[i] = x})
SameMultiset(xs, ys) ==
    \A x \in {xs[i] : i \in DOMAIN xs} \cup {ys[i] : i \in DOMAIN ys} :
        Count(x, xs) = Count(x, ys)

\* C24: Change.Equal(c, o) on two Changes is true iff the add lists are equal as
\* multisets under UserTag equality, the remove lists likewise, and the
\* removeKey lists are equal as multisets of strings: order within a list is
\* ignored, the multiplicity of duplicates is not.
C24_ChangeEqual ==
    (ChangeEqualDone /\ ~c.nil /\ ~o.nil) =>
        /\ ret.err = ""
        /\ ret.result <=>
              /\ ExistsBijection(c.AddTags, o.AddTags, UserTagEqualOn(c.AddTags, o.AddTags))
              /\ ExistsBijection(c.RemoveTags, o.RemoveTags,
                                 UserTagEqualOn(c.RemoveTags, o.RemoveTags))
              /\ SameMultiset(c.RemoveKey, o.RemoveKey)

\* C24 witness: the same two keys in another order are equal, as are add lists
\* holding one instant written in two zones, in another order
C24_Witness ==
    /\ ChangeEqualDone /\ ~c.nil /\ ~o.nil
    /\ ret.result
    /\ \/ /\ Len(c.RemoveKey) = 2
          /\ c.RemoveKey # o.RemoveKey
       \/ /\ Len(c.AddTags) = 2
          /\ c.AddTags[1] = o.AddTags[2] /\ c.AddTags[1].Value # o.AddTags[1].Value
          /\ c.AddTags[1].Key # c.AddTags[2].Key

----------------------------------------------------------------------------
(* Claims about the Equal operations of the composite types.               *)

RunDetailEqualDone == pc = "done" /\ ret.op = "runs.Detail.Equal"

\* the optional field is absent on exactly one side
OneAbsent(x, y) == x.nil # y.nil

\* C21: the nil-pairing rule in the Equal of a composite: for each optional
\* field (here Exit, Log and the Image of the Plan) an absent value on exactly
\* one side makes the whole Equal false, and two values that agree in every
\* field, absent ones included, are Equal
C21_NilPairing ==
    RunDetailEqualDone =>
        /\ OneAbsent(t.Exit, o.Exit) => ~ret.result
        /\ OneAbsent(t.Log, o.Log) => ~ret.result
        /\ OneAbsent(t.Plan.Image, o.Plan.Image) => ~ret.result
        /\ t = o => ret.result

\* C28: Detail equality refines Summary equality for Runs: a.Equal(b) implies
\* a.Summary.Equal(b.Summary), so two Details whose Exit differ (in code or
\* message, or one absent) are never Equal.
C28_DetailRefinesSummary ==
    RunDetailEqualDone =>
        /\ ret.result => ret.summary
        /\ t.Exit # o.Exit => ~ret.result

----------------------------------------------------------------------------
(* Claims about the serialization of Annotations and their equality.       *)

EqualAndMarshalDone == pc = "done" /\ ret.op = "Annotations.Equal;Annotations.MarshalJSON"

\* no key of the collection holds a '='
KeysWithoutEquals(xs) ==
    \A i \in DOMAIN xs : \A j \in DOMAIN xs[i].Key : xs[i].Key[j] # "="

\* C30 as stated: a.Equal(b) holds if and only if a.MarshalJSON() and
\* b.MarshalJSON() produce the identical sequence of "key=value" strings.
C30_CompleteInvariant ==
    EqualAndMarshalDone => (ret.result <=> ret.out = ret.other)

\* C30 (amended): equal collections serialize to the identical sequence of
\* "key=value" strings, whatever their order; and collections that serialize
\* identically are equal when no key of either holds a '='.
C30_Serialization ==
    EqualAndMarshalDone =>
        /\ ret.result => ret.out = ret.other
        /\ (KeysWithoutEquals(a) /\ KeysWithoutEquals(b) /\ ret.out = ret.other)
               => ret.result

\* C30 witness: two collections holding the same two Annotations in opposite
\* orders are equal and serialize identically
C30_Witness ==
    /\ EqualAndMarshalDone
    /\ Len(a) = 2 /\ a[1] # a[2]
    /\ b = <<a[2], a[1]>>
    /\ ret.result
    /\ ret.out = ret.other
    /\ KeysWithoutEquals(a)

----------------------------------------------------------------------------
(* Claims about the scratch copy of the unordered equality engine.         *)

ScanDone(p) == pc[p] = "done"

Without(s, S) ==
    LET F[n \in 0..Len(s)] ==
            IF n = 0 THEN <<>>
            ELSE IF n \in S THEN F[n - 1] ELSE Append(F[n - 1], s[n])
    IN  F[Len(s)]

LoopInvariant(p) ==
    /\ pc[p] = "loop" =>
          /\ ret[p].k <= Len(a)
          /\ ret[p].w.len = Len(o) - ret[p].k
          /\ \E S \in SUBSET (1..Len(o)) :
                Cardinality(S) = ret[p].k /\ Working(p) = Without(o, S)
    /\ (ScanDone(p) /\ ret[p].exit = "end") =>
          /\ ret[p].w.len = 0
          /\ ret[p].result
    /\ (ScanDone(p) /\ ret[p].exit # "end") => ~ret[p].result

\* C29: loop invariant of cmp.SliceEqualUnordered: after k elements of a have
\* been matched the working copy holds exactly len(b) - k elements, all of them
\* elements of the original b with k of its positions removed; whenever the loop
\* completes without returning false the working copy is empty and the function
\* returns true; and the function always terminates.
C29_LoopInvariant ==
    /\ [](\A p \in Procs : LoopInvariant(p))
    /\ <>(\A p \in Procs : ScanDone(p))

\* C29 witness: a call has matched two elements of a, its working copy is empty,
\* and it has returned true
C29_Witness ==
    /\ ScanDone("p1")
    /\ ret["p1"].exit = "end"
    /\ ret["p1"].k = 2 /\ Len(o) = 2 /\ o[1] # o[2]
    /\ ret["p1"].w.len = 0
    /\ ret["p1"].result

====
